---------------------------- MODULE Spec2Model ----------------------------
(***************************************************************************)
(* Model of controller/nvk8sapi/nvvalidatewebhookcfg/nvvalidatewebhookcfg.go *)
(* (package admission): the CA bundle registry, the namespace label        *)
(* enforcer, the validating-webhook-configuration reconciler and the       *)
(* tag/echo connectivity probe, run against a resource store with          *)
(* optimistic concurrency.                                                 *)
(*                                                                         *)
(* An optional value (a Go pointer, or a map entry) is a sequence of       *)
(* length 0 or 1.  A Go error is a string, "" being nil.                   *)
(***************************************************************************)
EXTENDS Integers, Sequences, FiniteSets, TLC

VARIABLES
    \* ---- process-wide registries and oracles
    admCaBundle,      \* service name -> bundle string ("" when the map has no entry)
    svcLabelKeys,     \* service name -> <<>> or <<[TagKey, EchoKey]>>
    k8sVersion,       \* <<major, minor>> of resource.GetK8sVersion()
    \* ---- the resource store
    gate,             \* <<>> or <<object>>: the ValidatingWebhookConfiguration named k8sResInfo.Name
    svcStore,         \* service name -> <<>> or <<object>>: the Service objects of namespace neuvector
    rvNext,           \* the store's next resource version
    extLeft,          \* how many more changes other writers make
    \* ---- ConfigK8sAdmissionControl
    k8sResInfo,       \* the ValidatingWebhookConfigInfo the caller passes
    ctrlState,        \* [Uri, Enable]
    pc,               \* "idle" | "read" | "apply" | "done"
    retry,
    k8sConfigured, matchedCfg, verRead, op, err,
    getErr,           \* <<>> or <<the error GetResource answered this attempt's read phase>>
    issued,           \* <<>> or <<[verb, ResourceVersion]>>: the store write this attempt issued
    ret,              \* <<>> or <<[skip, err]>>: what the invocation returned
    calls,            \* verb -> how many store calls on the gate resource this invocation issued
    callsLeft,        \* how many more invocations the caller makes
    \* ---- the namespace label enforcer
    allowedNamespaces, allowedNamespacesWild, defAllowedNamespaces, nsSelectorValue,
    ctrlPlaneOpInWhExpr,  \* resource.CtrlPlaneOpInWhExpr
    nsStore,          \* namespace name -> [Labels, ResourceVersion]: the Namespace objects
    nsPc,             \* "idle" | "verify" | "get" | "update"
    nsEnabled,        \* admCtrlEnabled of the running call
    nsQueue,          \* the (name, labels) pairs VerifyK8sNs is still to be called with
    nsLabelKeys,      \* labelKeys of the running VerifyK8sNs
    nsObj,            \* <<>> or <<the namespace object workSingleK8sNsLabels is about to update>>
    nsHist,           \* namespace name -> <<>> or <<the last finished VerifyK8sNs on it>>
    nsExt,            \* namespace name -> another writer changed it since that call finished
    nsCur,            \* the running (or last) VerifyK8sNs
    nsAllowedCall,    \* the last UpdateAllowedK8sNs: its arguments and its ListResource calls
    nsCallsLeft,      \* how many more calls the callers of the enforcer make
    \* ---- the connectivity probe
    now,              \* time.Now().Unix()
    tPc,              \* TestAdmWebhookConnection: "idle" | "write" | "select" | "poll" | "done"
    tTag,             \* its tag
    tObj,             \* <<>> or <<the Service object it is about to update>>
    tPolls,           \* i of its loop: the polls performed
    tTick, tSig,      \* its ticker and its c_sig hold a value
    tSigged,          \* a signal reached its process during the loop
    tPollsAfterSig,   \* the polls it began after that signal
    tGetErr,          \* <<>> or <<the error of its last poll's GetValidateWebhookSvcInfo>>
    tRet,             \* <<>> or <<[outcome, err]>>
    tRunsLeft,        \* how many more probes are started
    rPc,              \* EchoAdmWebhookConnection: "idle" | "select" | "get" | "write" | "done"
    rTagExpected,
    rPolls,           \* i of its loop
    rEchoed,          \* it returned after a successful echo write
    rConflicted,      \* an echo write of this invocation failed with a conflict
    rTick, rSig, rSigged, rPollsAfterSig,
    rObj,             \* <<>> or <<the Service object it is about to update>>
    rRunsLeft,        \* how many more responders are started
    echoSince,        \* an echo of the initiator's tag was committed after its tag write
    \* ---- the callers of the CA bundle registry
    regCall,          \* <<>> or <<[fn, svcName, caBundle, reset, keys]>>: the last call and its result
    regLeft,          \* how many more calls they make
    \* ---- two controller replicas in ConfigK8sAdmissionControl at once
    replicas          \* <<>> or replica -> [pc, retry, k8sConfigured, matchedCfg, verRead, op, err, ret]

regVars == <<admCaBundle, svcLabelKeys>>
storeVars == <<gate, svcStore, rvNext, extLeft>>
cfgVars == <<k8sResInfo, ctrlState, pc, retry, k8sConfigured, matchedCfg, verRead, op, err,
             getErr, issued, ret, calls, callsLeft, replicas>>
nsPolicyVars == <<allowedNamespaces, allowedNamespacesWild, defAllowedNamespaces,
                  nsSelectorValue, ctrlPlaneOpInWhExpr>>
nsVars == <<nsPolicyVars, nsStore, nsPc, nsEnabled, nsQueue, nsLabelKeys, nsObj, nsHist, nsExt,
            nsCur, nsAllowedCall, nsCallsLeft>>
tVars == <<tPc, tTag, tObj, tPolls, tTick, tSig, tSigged, tPollsAfterSig, tGetErr, tRet,
           tRunsLeft>>
rVars == <<rPc, rTagExpected, rPolls, rEchoed, rConflicted, rTick, rSig, rSigged, rPollsAfterSig,
           rObj, rRunsLeft>>
probeVars == <<now, tVars, rVars, echoSince>>
regCallVars == <<regCall, regLeft>>
enforcerProbeVars == <<nsVars, probeVars, regCallVars, replicas>>
vars == <<admCaBundle, svcLabelKeys, k8sVersion, gate, svcStore, rvNext, extLeft,
          k8sResInfo, ctrlState, pc, retry, k8sConfigured, matchedCfg, verRead, op, err,
          getErr, issued, ret, calls, callsLeft, nsVars, probeVars, regCallVars, replicas>>

---------------------------------------------------------------------------
(* Bounds of the model *)

MaxExt == 2
MaxCalls == 2
MaxNsCalls == 1
MaxNsExt == 1
MaxTests == 1
MaxEchoes == 1
MaxIdleTicks == 1
MaxCounted == 2
MaxRegCalls == 3
ProbeEpoch == 100

---------------------------------------------------------------------------
(* Names of package resource and package share *)

NvAdmValidatingName == "neuvector-validating-admission-webhook"
NvCrdValidatingName == "neuvector-validating-crd-webhook"
NvAdmValidatingWebhookName == "neuvector-validating-admission-webhook.neuvector.svc"
NvCrdValidatingWebhookName == "neuvector-validating-crd-webhook.neuvector.svc"
NvStatusValidatingWebhookName == "neuvector-validating-status-webhook.neuvector.svc"
NvAdmSvcName == "neuvector-svc-admission-webhook"
NvCrdSvcName == "neuvector-svc-crd-webhook"
NvAdmSvcNamespace == "neuvector"

AdmClientModeUrl == "url"
AdmClientModeSvc == "service"

K8sApiVersionV1 == "v1"
K8sApiVersionV1Beta1 == "v1beta1"

SideEffectNone == "None"
SideEffectNoneOnDryRun == "NoneOnDryRun"
SideEffectSome == "Some"

Ignore == "Ignore"
Fail == "Fail"

NsSelectorKeySkipNV == "NvSkipAdmissionControl"
NsSelectorKeyStatusNV == "NvStatusAdmissionControl"
NsSelectorKeyCtrlPlane == "control-plane"
NsSelectorOpNotExist == "DoesNotExist"
NsSelectorOpExists == "Exists"

K8sResOpCreate == "create"
K8sResOpUpdate == "update"
K8sResOpDelete == "delete"

\* The two schema generations of the stored object, and any other shape.
GenV1 == "admissionregistration/v1"
GenV1Beta1 == "admissionregistration/v1beta1"
GenOther == "other"

ErrUnsupportedType == "Unsupported admission control type"
ErrNotFound == "not found"
ErrForbidden == "403 forbidden"
\* fmt.Errorf("type assertion failed(%d.%d)", k8sVersionMajor, k8sVersionMinor)
ErrTypeAssertion(ver) ==
    "type assertion failed(" \o ToString(ver[1]) \o "." \o ToString(ver[2]) \o ")"
ErrEmptyCaBundle == "empty caBundle"
ErrUnsupportedOp == "unsupported k8s resource operation"
ErrConflict == "conflict"
ErrExists == "already exists"
ErrStore == "store error"

Services == {NvAdmSvcName, NvCrdSvcName}
Bundles == {"", "ca1", "ca2"}
\* The bundles the registry is given while the reconciler is run.
GateBundles == {"", "ca1"}

---------------------------------------------------------------------------
(* strings.EqualFold over ASCII strings: two strings are equal under case  *)
(* folding when they have the same length and, position by position, the   *)
(* same character once folded.  ToLower folds a string character by        *)
(* character; every character but A..Z is kept.                            *)

RECURSIVE ToLower(_)
ToLower(s) ==
    LET fold == [A |-> "a", B |-> "b", C |-> "c", D |-> "d", E |-> "e", F |-> "f", G |-> "g",
                 H |-> "h", I |-> "i", J |-> "j", K |-> "k", L |-> "l", M |-> "m", N |-> "n",
                 O |-> "o", P |-> "p", Q |-> "q", R |-> "r", S |-> "s", T |-> "t", U |-> "u",
                 V |-> "v", W |-> "w", X |-> "x", Y |-> "y", Z |-> "z"]
        c == SubSeq(s, 1, 1)
    IN  IF s = "" THEN ""
        ELSE (IF c \in DOMAIN fold THEN fold[c] ELSE c) \o ToLower(SubSeq(s, 2, Len(s)))

EqualFold(a, b) ==
    IF a = b THEN TRUE
    ELSE /\ Len(a) = Len(b)
         /\ \A i \in 1..Len(a) : ToLower(SubSeq(a, i, i)) = ToLower(SubSeq(b, i, i))

\* fmt.Sprintf("https://%s.%s.svc:%d%s", svcName, namespace, port, path)
SprintfUrl(svcName, namespace, port, path) ==
    [scheme |-> "https", host |-> <<svcName, namespace, "svc">>, port |-> port, path |-> path]

\* strings.EqualFold of two URLs, part by part.
EqualFoldUrl(u, v) ==
    /\ EqualFold(u.scheme, v.scheme)
    /\ Len(u.host) = Len(v.host)
    /\ \A i \in 1..Len(u.host) : EqualFold(u.host[i], v.host[i])
    /\ u.port = v.port
    /\ EqualFold(u.path, v.path)

IsNsSelectorSupported(ver) == ver[1] = 1 /\ ver[2] >= 14


---------------------------------------------------------------------------
(* Registry lookups: a Go map read of a missing key gives the zero value. *)

BundleOf(bundles, svcName) ==
    IF svcName \in DOMAIN bundles THEN bundles[svcName] ELSE ""

---------------------------------------------------------------------------
(* The static per-webhook-name settings of the write phase (the switch on  *)
(* whInfo.Name) and the expectation IsK8sNvWebhookConfigured checks.       *)

NvOpResources(whName) ==
    CASE whName = NvAdmValidatingWebhookName -> "AdmResForOpsSettings"
      [] whName = NvCrdValidatingWebhookName -> "CrdResForOpsSettings"
      [] whName = NvStatusValidatingWebhookName -> "StatusResForOpsSettings"
      [] OTHER -> ""

NsSelectorOf(whName) ==
    CASE whName = NvAdmValidatingWebhookName ->
            <<[Key |-> NsSelectorKeySkipNV, Operator |-> NsSelectorOpNotExist]>>
      [] whName = NvStatusValidatingWebhookName ->
            <<[Key |-> NsSelectorKeyStatusNV, Operator |-> NsSelectorOpExists]>>
      [] OTHER -> <<>>

FailurePolicyOf(whName, failurePolicy) ==
    CASE whName = NvAdmValidatingWebhookName -> failurePolicy
      [] whName = NvCrdValidatingWebhookName -> Ignore
      [] whName = NvStatusValidatingWebhookName -> Ignore
      [] OTHER -> ""

SideEffectsV1(whName) ==
    IF whName = NvCrdValidatingWebhookName THEN SideEffectNoneOnDryRun ELSE SideEffectNone

\* A controller that writes the v1 value into a v1beta1 webhook.
SideEffectsV1Beta1AsV1(whName) ==
    IF whName = NvCrdValidatingWebhookName THEN SideEffectNoneOnDryRun ELSE SideEffectNone

SideEffectsV1Beta1(whName) ==
    IF whName = NvCrdValidatingWebhookName THEN SideEffectSome ELSE SideEffectNone

\* ClientConfig.Url / ClientConfig.Service of a written webhook: exactly one is set.
BuildClientConfig(whInfo, bundles) ==
    LET svcName == whInfo.ClientConfig.ServiceName
        urlMode == whInfo.ClientConfig.ClientMode = AdmClientModeUrl
    IN  [CaBundle |-> BundleOf(bundles, svcName),
         Url |-> IF urlMode
                 THEN <<SprintfUrl(svcName, NvAdmSvcNamespace,
                                   whInfo.ClientConfig.Port, whInfo.ClientConfig.Path)>>
                 ELSE <<>>,
         Service |-> IF urlMode
                     THEN <<>>
                     ELSE <<[Namespace |-> NvAdmSvcNamespace, Name |-> svcName,
                             Path |-> whInfo.ClientConfig.Path]>>]

\* One apiv1.ValidatingWebhook of the write phase.
BuildWebhookV1(whInfo, bundles) ==
    [Name |-> <<whInfo.Name>>,
     ClientConfig |-> BuildClientConfig(whInfo, bundles),
     Rules |-> [settings |-> NvOpResources(whInfo.Name), scoped |-> TRUE],
     FailurePolicy |-> <<FailurePolicyOf(whInfo.Name, whInfo.FailurePolicy)>>,
     AdmissionReviewVersions |-> <<K8sApiVersionV1Beta1>>,
     MatchPolicy |-> <<"Exact">>,
     SideEffects |-> <<SideEffectsV1(whInfo.Name)>>,
     TimeoutSeconds |-> <<whInfo.TimeoutSeconds>>,
     NamespaceSelector |-> NsSelectorOf(whInfo.Name)]

\* One apiv1beta1.Webhook of the write phase.
BuildWebhookV1Beta1(whInfo, bundles, ver) ==
    [Name |-> <<whInfo.Name>>,
     ClientConfig |-> BuildClientConfig(whInfo, bundles),
     Rules |-> [settings |-> NvOpResources(whInfo.Name),
                scoped |-> IsNsSelectorSupported(ver)],
     FailurePolicy |-> <<FailurePolicyOf(whInfo.Name, whInfo.FailurePolicy)>>,
     AdmissionReviewVersions |-> <<>>,
     MatchPolicy |-> <<>>,
     SideEffects |-> IF ver[1] = 1 /\ ver[2] > 11
                     THEN <<SideEffectsV1Beta1(whInfo.Name)>>
                     ELSE <<>>,
     TimeoutSeconds |-> <<>>,
     NamespaceSelector |-> IF IsNsSelectorSupported(ver)
                           THEN NsSelectorOf(whInfo.Name)
                           ELSE <<>>]

UseV1ForWrite(ver) == ver[1] = 1 /\ ver[2] >= 22

BuildWebhooks(info, bundles, ver) ==
    [i \in 1..Len(info.WebhooksInfo) |->
        IF UseV1ForWrite(ver)
        THEN BuildWebhookV1(info.WebhooksInfo[i], bundles)
        ELSE BuildWebhookV1Beta1(info.WebhooksInfo[i], bundles, ver)]

\* A controller that looks at the bundle of the first webhook only.
FirstCaBundleEmpty(info, bundles) ==
    /\ info.WebhooksInfo # <<>>
    /\ BundleOf(bundles, info.WebhooksInfo[1].ClientConfig.ServiceName) = ""

\* Some webhook of the desired configuration has no CA bundle in the registry.
SomeCaBundleEmpty(info, bundles) ==
    \E i \in 1..Len(info.WebhooksInfo) :
        BundleOf(bundles, info.WebhooksInfo[i].ClientConfig.ServiceName) = ""

WriteGen(ver) == IF UseV1ForWrite(ver) THEN GenV1 ELSE GenV1Beta1

(* configK8sAdmCtrlValidateResource up to its store call: the error it     *)
(* returns before any store call, or the one store call it issues.         *)
\* A delete that carries the version token it is given.
ValidateResourceRequestVersionedDelete(oper, resVersion, info, bundles, ver) ==
    IF oper = K8sResOpDelete
    THEN [err |-> "",
          call |-> <<[verb |-> "DeleteResource", gen |-> WriteGen(ver), Name |-> info.Name,
                      ResourceVersion |-> <<resVersion>>, Webhooks |-> <<>>]>>]
    ELSE [err |-> ErrUnsupportedOp, call |-> <<>>]

ValidateResourceRequest(oper, resVersion, info, bundles, ver) ==
    IF oper = K8sResOpDelete
    THEN [err |-> "",
          call |-> <<[verb |-> "DeleteResource", gen |-> WriteGen(ver), Name |-> info.Name,
                      ResourceVersion |-> <<>>, Webhooks |-> <<>>]>>]
    ELSE IF oper = K8sResOpCreate \/ oper = K8sResOpUpdate
    THEN IF SomeCaBundleEmpty(info, bundles)
         THEN [err |-> ErrEmptyCaBundle, call |-> <<>>]
         ELSE [err |-> "",
               call |-> <<[verb |-> IF oper = K8sResOpCreate
                                    THEN "AddResource" ELSE "UpdateResource",
                           gen |-> WriteGen(ver), Name |-> info.Name,
                           ResourceVersion |-> IF oper = K8sResOpUpdate
                                               THEN <<resVersion>> ELSE <<>>,
                           Webhooks |-> BuildWebhooks(info, bundles, ver)]>>]
    ELSE [err |-> ErrUnsupportedOp, call |-> <<>>]

---------------------------------------------------------------------------
(* The resource store (global.ORCH) for the one object named               *)
(* k8sResInfo.Name.  storeErr is the failure the store itself reports      *)
(* ("" when it serves the call).                                           *)

GetResource(g, storeErr) ==
    IF storeErr # "" THEN [err |-> storeErr, obj |-> <<>>]
    ELSE IF g = <<>> THEN [err |-> ErrNotFound, obj |-> <<>>]
    ELSE [err |-> "", obj |-> g]

StoreApply(g, rv, call, storeErr) ==
    IF storeErr # "" THEN [err |-> storeErr, gate |-> g, rvNext |-> rv]
    ELSE IF call.verb = "AddResource"
    THEN IF g # <<>>
         THEN [err |-> ErrExists, gate |-> g, rvNext |-> rv]
         ELSE [err |-> "",
               gate |-> <<[gen |-> call.gen, Name |-> call.Name, ResourceVersion |-> rv,
                           Webhooks |-> call.Webhooks]>>,
               rvNext |-> rv + 1]
    ELSE IF call.verb = "UpdateResource"
    THEN IF g = <<>>
         THEN [err |-> ErrNotFound, gate |-> g, rvNext |-> rv]
         ELSE IF call.ResourceVersion # <<g[1].ResourceVersion>>
         THEN [err |-> ErrConflict, gate |-> g, rvNext |-> rv]
         ELSE [err |-> "",
               gate |-> <<[gen |-> call.gen, Name |-> call.Name, ResourceVersion |-> rv,
                           Webhooks |-> call.Webhooks]>>,
               rvNext |-> rv + 1]
    ELSE [err |-> "", gate |-> <<>>, rvNext |-> rv]

---------------------------------------------------------------------------
(* The read phase: isK8sConfiguredAsExpected.                              *)

(* resource.IsK8sNvWebhookConfigured: the structural predicate of package  *)
(* resource.  The actual webhook carries the failure policy and the        *)
(* operation/resource table of its name, and, when the server supports     *)
(* namespace selectors, the selector its name declares.                    *)
IsK8sNvWebhookConfigured(whName, failurePolicy, wh, nsSelectorSupported) ==
    /\ NvOpResources(whName) # ""
    /\ wh.FailurePolicy = <<FailurePolicyOf(whName, failurePolicy)>>
    /\ wh.Rules.settings = NvOpResources(whName)
    /\ (nsSelectorSupported => wh.NamespaceSelector = NsSelectorOf(whName))

\* The normalisation of a stored webhook into resource.K8sAdmRegWebhook.
NormalizeWebhook(wh, useApiV1) ==
    [Name |-> wh.Name,
     AdmissionReviewVersions |-> IF useApiV1 THEN wh.AdmissionReviewVersions ELSE <<>>,
     ClientConfig |-> wh.ClientConfig,
     Rules |-> wh.Rules,
     FailurePolicy |-> wh.FailurePolicy,
     NamespaceSelector |-> wh.NamespaceSelector,
     SideEffects |-> wh.SideEffects]

\* The side-effect value the read phase expects of every webhook of the resource.
ExpectedSideEffects(resName, ver) ==
    IF resName = NvCrdValidatingName
    THEN IF ver[1] = 1 /\ ver[2] >= 22 THEN SideEffectNoneOnDryRun ELSE SideEffectSome
    ELSE SideEffectNone

\* The side-effect check of one webhook: skipped for a server minor version <= 11.
SideEffectsAsExpected(wh, resName, ver) ==
    \/ ver[2] <= 11
    \/ /\ ver[2] > 11
       /\ wh.SideEffects # <<>>
       /\ wh.SideEffects[1] = ExpectedSideEffects(resName, ver)

\* The address check of one webhook.
AddressAsExpected(wh, whInfo) ==
    LET cc == wh.ClientConfig
        svcName == whInfo.ClientConfig.ServiceName
    IN  IF whInfo.ClientConfig.ClientMode = AdmClientModeUrl
        THEN /\ cc.Url # <<>>
             /\ EqualFoldUrl(cc.Url[1],
                             SprintfUrl(svcName, NvAdmSvcNamespace,
                                        whInfo.ClientConfig.Port, whInfo.ClientConfig.Path))
        ELSE /\ cc.Service[1].Namespace = NvAdmSvcNamespace
             /\ cc.Service[1].Name = svcName
             /\ EqualFold(cc.Service[1].Path, whInfo.ClientConfig.Path)

\* whMatched of the inner loop: wh has the configuration whInfo expects.
WebhookMatched(wh, whInfo, resName, useApiV1, bundles, ver) ==
    LET clientInUrlMode == whInfo.ClientConfig.ClientMode = AdmClientModeUrl
        cc == wh.ClientConfig
        bundle == BundleOf(bundles, whInfo.ClientConfig.ServiceName)
    IN  /\ (~useApiV1 \/ wh.AdmissionReviewVersions = <<K8sApiVersionV1Beta1>>)
        /\ \/ (~clientInUrlMode /\ cc.Service # <<>>)
           \/ (clientInUrlMode /\ cc.Url # <<>>)
        /\ SideEffectsAsExpected(wh, resName, ver)
        /\ (bundle = "" \/ bundle = cc.CaBundle)
        /\ AddressAsExpected(wh, whInfo)
        /\ IsK8sNvWebhookConfigured(whInfo.Name, whInfo.FailurePolicy, wh,
                                    IsNsSelectorSupported(ver))

\* The first entry of the desired list with the name of wh (0: none).
FirstWithName(whName, infos) ==
    IF \E j \in 1..Len(infos) : whName = <<infos[j].Name>>
    THEN CHOOSE j \in 1..Len(infos) :
            /\ whName = <<infos[j].Name>>
            /\ \A k \in 1..(j - 1) : whName # <<infos[k].Name>>
    ELSE 0

\* The outer loop: every actual webhook is matched by the first desired one of its name.
AllWebhooksMatched(whs, info, useApiV1, bundles, ver) ==
    \A i \in 1..Len(whs) :
        LET j == FirstWithName(whs[i].Name, info.WebhooksInfo)
        IN  /\ j # 0
            /\ WebhookMatched(NormalizeWebhook(whs[i], useApiV1), info.WebhooksInfo[j],
                              info.Name, useApiV1, bundles, ver)

SupportedName(resName) == resName = NvAdmValidatingName \/ resName = NvCrdValidatingName

\* A read phase that stops only at a resource with more webhooks than desired.
WebhookCountExceeds(obj, info) == Len(obj.Webhooks) > Len(info.WebhooksInfo)

\* The rule-count short cut of both generations.
WebhookCountDiffers(obj, info) == Len(obj.Webhooks) # Len(info.WebhooksInfo)

(* isK8sConfiguredAsExpected, given what GetResource returned (get is not  *)
(* looked at for an unsupported name: no store call is made then).  The    *)
(* version token "" is 0.                                                  *)
isK8sConfiguredAsExpected(info, get, bundles, ver) ==
    IF ~SupportedName(info.Name)
    THEN [found |-> FALSE, matched |-> FALSE, verRead |-> 0, err |-> ErrUnsupportedType]
    ELSE IF get.err # ""
    THEN [found |-> FALSE, matched |-> FALSE, verRead |-> 0, err |-> get.err]
    ELSE LET obj == get.obj[1]
             useApiV1 == obj.gen = GenV1
         IN  IF obj.gen # GenV1 /\ obj.gen # GenV1Beta1
             THEN [found |-> TRUE, matched |-> FALSE, verRead |-> 0, err |-> ErrTypeAssertion(ver)]
             ELSE IF WebhookCountDiffers(obj, info)
             THEN [found |-> TRUE, matched |-> FALSE, verRead |-> obj.ResourceVersion,
                   err |-> ""]
             ELSE [found |-> TRUE,
                   matched |-> AllWebhooksMatched(obj.Webhooks, info, useApiV1, bundles, ver),
                   verRead |-> obj.ResourceVersion, err |-> ""]

---------------------------------------------------------------------------
(* The Service objects and GetValidateWebhookSvcInfo.                      *)

ServiceTypeClusterIP == "ClusterIP"
ServiceTypeNodePort == "NodePort"
DefaultSvcPort == 443
NodePorts == {30443}

\* fmt.Sprintf("tag-%s", svcName), fmt.Sprintf("echo-%s", svcName)
TagKeyOf(svcName) == "tag-" \o svcName
EchoKeyOf(svcName) == "echo-" \o svcName

LabelOf(labels, key) == IF key \in DOMAIN labels THEN labels[key] ELSE ""

(* GetValidateWebhookSvcInfo, given what GetResource returned for the      *)
(* service and the registry's label keys of the service.                   *)
GetValidateWebhookSvcInfo(get, keys) ==
    IF get.err # ""
    THEN [err |-> get.err, SvcNodePort |-> DefaultSvcPort, SvcType |-> ServiceTypeClusterIP,
          LabelTag |-> "", LabelEcho |-> ""]
    ELSE LET svc == get.obj[1]
             tag == IF keys # <<>> THEN LabelOf(svc.Labels, keys[1].TagKey) ELSE ""
             echo == IF keys # <<>> THEN LabelOf(svc.Labels, keys[1].EchoKey) ELSE ""
         IN  IF svc.Type = ServiceTypeNodePort /\ svc.NodePort # <<>>
             THEN [err |-> "", SvcNodePort |-> svc.NodePort[1],
                   SvcType |-> ServiceTypeNodePort, LabelTag |-> tag, LabelEcho |-> echo]
             ELSE [err |-> "", SvcNodePort |-> DefaultSvcPort,
                   SvcType |-> ServiceTypeClusterIP, LabelTag |-> tag, LabelEcho |-> echo]

KeysOf(keys, svcName) == IF svcName \in DOMAIN keys THEN keys[svcName] ELSE <<>>

GetService(store, svcName, storeErr) ==
    IF svcName \in DOMAIN store
    THEN GetResource(store[svcName], storeErr)
    ELSE GetResource(<<>>, storeErr)

---------------------------------------------------------------------------
(* The CA bundle registry.                                                 *)

\* A SetCABundle that derives the label keys from the bundle as well.
SetCABundleKeyedByBundle(svcName, caBundle) ==
    /\ admCaBundle' = [admCaBundle EXCEPT ![svcName] = caBundle]
    /\ svcLabelKeys' = [svcLabelKeys EXCEPT
                           ![svcName] = <<[TagKey |-> TagKeyOf(svcName) \o caBundle,
                                           EchoKey |-> EchoKeyOf(svcName) \o caBundle]>>]

SetCABundle(svcName, caBundle) ==
    /\ admCaBundle' = [admCaBundle EXCEPT ![svcName] = caBundle]
    /\ svcLabelKeys' = [svcLabelKeys EXCEPT
                           ![svcName] = <<[TagKey |-> TagKeyOf(svcName),
                                           EchoKey |-> EchoKeyOf(svcName)]>>]

\* A ResetCABundle that takes any bundle that differs, the empty one too.
ResetCABundleOnAnyChange(bundles, svcName, caBundle) ==
    BundleOf(bundles, svcName) # caBundle

\* The value ResetCABundle returns.
ResetCABundleResult(bundles, svcName, caBundle) ==
    caBundle # "" /\ BundleOf(bundles, svcName) # caBundle

ResetCABundle(svcName, caBundle) ==
    /\ admCaBundle' = IF ResetCABundleResult(admCaBundle, svcName, caBundle)
                      THEN [admCaBundle EXCEPT ![svcName] = caBundle]
                      ELSE admCaBundle
    /\ UNCHANGED svcLabelKeys

\* GetSvcLabelKeysForTest: the pair of the service, or two empty strings.
GetSvcLabelKeysForTest(keys, svcName) ==
    IF KeysOf(keys, svcName) # <<>>
    THEN <<KeysOf(keys, svcName)[1].TagKey, KeysOf(keys, svcName)[1].EchoKey>>
    ELSE <<"", "">>

---------------------------------------------------------------------------
(* The inputs of the reconciler.                                           *)

WebhookInfo(whName, mode, svcName, path, failurePolicy) ==
    [Name |-> whName,
     ClientConfig |-> [ClientMode |-> mode, ServiceName |-> svcName, Path |-> path, Port |-> 0],
     FailurePolicy |-> failurePolicy,
     TimeoutSeconds |-> 30]

AdmInfo(mode) ==
    WebhookInfo(NvAdmValidatingWebhookName, mode, NvAdmSvcName, "/v1/validate/1", Fail)
StatusInfo(mode, svcName) ==
    WebhookInfo(NvStatusValidatingWebhookName, mode, svcName, "/v1/nvstatus", Ignore)
CrdInfo(mode) ==
    WebhookInfo(NvCrdValidatingWebhookName, mode, NvCrdSvcName, "/v1/validate/crd", Ignore)

(* The configurations a caller passes: the two the controller registers    *)
(* (in service and in url mode), one whose webhooks are served by two      *)
(* services, one of an unsupported name, and one whose webhook is not the  *)
(* one its name stands for.                                                *)
GateSpecs ==
    { [Name |-> NvAdmValidatingName,
       WebhooksInfo |-> <<AdmInfo(AdmClientModeSvc), StatusInfo(AdmClientModeSvc, NvAdmSvcName)>>],
      [Name |-> NvAdmValidatingName,
       WebhooksInfo |-> <<AdmInfo(AdmClientModeUrl), StatusInfo(AdmClientModeSvc, NvCrdSvcName)>>],
      [Name |-> NvCrdValidatingName,
       WebhooksInfo |-> <<CrdInfo(AdmClientModeSvc)>>],
      [Name |-> "other-webhook",
       WebhooksInfo |-> <<AdmInfo(AdmClientModeSvc)>>],
      [Name |-> NvCrdValidatingName,
       WebhooksInfo |-> <<AdmInfo(AdmClientModeSvc)>>] }

KnownWebhookNames ==
    {NvAdmValidatingWebhookName, NvCrdValidatingWebhookName, NvStatusValidatingWebhookName}

(* A configuration as the controller builds it: a supported name, distinct *)
(* known webhook names, and the CRD webhook in the CRD configuration only. *)
WellFormed(info) ==
    /\ SupportedName(info.Name)
    /\ \A i \in 1..Len(info.WebhooksInfo) :
          /\ info.WebhooksInfo[i].Name \in KnownWebhookNames
          /\ (info.WebhooksInfo[i].Name = NvCrdValidatingWebhookName)
                <=> (info.Name = NvCrdValidatingName)
          /\ \A j \in 1..Len(info.WebhooksInfo) :
                info.WebhooksInfo[i].Name = info.WebhooksInfo[j].Name => i = j

Versions == {<<1, 10>>, <<1, 15>>, <<1, 22>>}

CtrlStates ==
    { [Uri |-> "", Enable |-> TRUE],
      [Uri |-> "/v1/validate", Enable |-> TRUE],
      [Uri |-> "/v1/validate", Enable |-> FALSE] }

\* The loop before the retries: a url-mode webhook gets the port of its service.
ResolvePorts(info, store, keys, storeErr) ==
    [info EXCEPT !.WebhooksInfo =
        [i \in 1..Len(info.WebhooksInfo) |->
            LET wi == info.WebhooksInfo[i]
            IN  IF wi.ClientConfig.ClientMode = AdmClientModeUrl
                THEN [wi EXCEPT !.ClientConfig.Port =
                        GetValidateWebhookSvcInfo(
                            GetService(store, wi.ClientConfig.ServiceName, storeErr),
                            KeysOf(keys, wi.ClientConfig.ServiceName)).SvcNodePort]
                ELSE wi]]

\* A selection with create and update taken for each other.
SelectOpSwapped(configured, matched, enable) ==
    IF configured /\ ~enable THEN K8sResOpDelete
    ELSE IF enable
    THEN IF ~configured THEN K8sResOpUpdate
         ELSE IF ~matched THEN K8sResOpCreate
         ELSE ""
    ELSE ""

\* The operation an attempt selects from what it read.
SelectOp(configured, matched, enable) ==
    IF configured /\ ~enable THEN K8sResOpDelete
    ELSE IF enable
    THEN IF ~configured THEN K8sResOpCreate
         ELSE IF ~matched THEN K8sResOpUpdate
         ELSE ""
    ELSE ""

\* An attempt that stops early only when the configuration is in place.
SkipWhenMatchedOnly(configured, matched, enable, readErr) ==
    matched /\ configured /\ enable

\* The two early returns of an attempt: nothing to do.
SkipAfterRead(configured, matched, enable, readErr) ==
    \/ (~configured /\ ~matched /\ ~enable /\ readErr # "")
    \/ (~configured /\ ~enable)
    \/ (matched /\ configured /\ enable)

\* A loop that allows one attempt more.
MaxRetryPlusOne == 3 + 1
MaxRetryLessTwo == 3 - 2

MaxRetry == 3

---------------------------------------------------------------------------
(* What other writers of the store put under the name of the gate          *)
(* resource: the resource as some controller would write it for another    *)
(* server version or with another bundle, and such a resource with one     *)
(* field of its first webhook changed.                                     *)

Tampers == {"dropLast", "addFirst", "dupFirst", "arvV1", "sideNil", "sideNone", "sideDry", "sideSome",
            "upperPath", "flipMode", "noSelector", "failurePolicy"}
SideTampers == {"sideNil", "sideNone", "sideDry", "sideSome"}

ToUpperPath(path) ==
    CASE path = "/v1/validate/1" -> "/V1/VALIDATE/1"
      [] path = "/v1/validate/crd" -> "/V1/VALIDATE/CRD"
      [] path = "/v1/nvstatus" -> "/V1/NVSTATUS"
      [] OTHER -> path

TamperWebhook(wh, t) ==
    CASE t = "arvV1" -> [wh EXCEPT !.AdmissionReviewVersions = <<K8sApiVersionV1>>]
      [] t = "sideNil" -> [wh EXCEPT !.SideEffects = <<>>]
      [] t = "sideNone" -> [wh EXCEPT !.SideEffects = <<SideEffectNone>>]
      [] t = "sideDry" -> [wh EXCEPT !.SideEffects = <<SideEffectNoneOnDryRun>>]
      [] t = "sideSome" -> [wh EXCEPT !.SideEffects = <<SideEffectSome>>]
      [] t = "upperPath" ->
            IF wh.ClientConfig.Url # <<>>
            THEN [wh EXCEPT !.ClientConfig.Url[1].path = ToUpperPath(@)]
            ELSE [wh EXCEPT !.ClientConfig.Service[1].Path = ToUpperPath(@)]
      [] t = "flipMode" ->
            IF wh.ClientConfig.Url # <<>>
            THEN [wh EXCEPT !.ClientConfig.Url = <<>>,
                            !.ClientConfig.Service =
                                <<[Namespace |-> NvAdmSvcNamespace,
                                   Name |-> wh.ClientConfig.Url[1].host[1],
                                   Path |-> wh.ClientConfig.Url[1].path]>>]
            ELSE [wh EXCEPT !.ClientConfig.Service = <<>>,
                            !.ClientConfig.Url =
                                <<SprintfUrl(wh.ClientConfig.Service[1].Name, NvAdmSvcNamespace,
                                             DefaultSvcPort, wh.ClientConfig.Service[1].Path)>>]
      [] t = "noSelector" -> [wh EXCEPT !.NamespaceSelector = <<>>]
      [] t = "failurePolicy" -> [wh EXCEPT !.FailurePolicy = <<"Other">>]
      [] OTHER -> wh

TamperWebhooks(whs, t) ==
    IF whs = <<>> THEN whs
    ELSE IF t = "dropLast" THEN SubSeq(whs, 1, Len(whs) - 1)
    ELSE IF t = "addFirst" THEN Append(whs, whs[1])
    ELSE IF t = "dupFirst" THEN [i \in 1..Len(whs) |-> whs[1]]
    ELSE [whs EXCEPT ![1] = TamperWebhook(whs[1], t)]

ConstBundles(b) == [svcName \in Services |-> b]

\* Every such object: the actual resources the read phase is checked on.
AllGateObjects(info, ver) ==
    LET asWritten(v, b) == BuildWebhooks(info, ConstBundles(b), v)
        obj(g, whs) == [gen |-> g, Name |-> info.Name, Webhooks |-> whs]
    IN  {obj(WriteGen(v), asWritten(v, "ca1")) : v \in Versions}
        \cup {obj(WriteGen(ver), asWritten(ver, "ca2"))}
        \cup {obj(WriteGen(ver), TamperWebhooks(asWritten(ver, "ca1"), t)) : t \in Tampers}
        \cup {obj(GenV1, TamperWebhooks(asWritten(<<1, 22>>, "ca1"), t)) : t \in SideTampers}
        \cup {obj(g, asWritten(ver, "ca1")) : g \in {GenV1, GenV1Beta1, GenOther}}

(* Those of them the reconciler is run against: the resource as written,   *)
(* with another bundle, with a webhook less, of the other generation and   *)
(* of no known generation.                                                 *)
ExtGateObjects(info, ver) ==
    LET asWritten(b) == BuildWebhooks(info, ConstBundles(b), ver)
        obj(g, whs) == [gen |-> g, Name |-> info.Name, Webhooks |-> whs]
    IN  {obj(WriteGen(ver), asWritten("ca1")),
         obj(WriteGen(ver), asWritten("ca2")),
         obj(WriteGen(ver), TamperWebhooks(asWritten("ca1"), "dropLast")),
         obj(IF WriteGen(ver) = GenV1 THEN GenV1Beta1 ELSE GenV1, asWritten("ca1")),
         obj(GenOther, asWritten("ca1"))}

---------------------------------------------------------------------------
(* ConfigK8sAdmissionControl, one store call per step.                     *)

Verbs == {"GetResource", "AddResource", "UpdateResource", "DeleteResource"}
NoCalls == [v \in Verbs |-> 0]
Issue(c, verb) == [c EXCEPT ![verb] = @ + 1]

Returned(skipped, e) == <<[skip |-> skipped, err |-> e]>>

\* The entry of the function up to the first attempt.
ConfigStart ==
    /\ pc = "idle"
    /\ callsLeft > 0
    /\ \E cs \in CtrlStates, storeErr \in {"", ErrForbidden} :
          /\ ctrlState' = cs
          /\ IF cs.Uri = ""
             THEN /\ pc' = "done"
                  /\ ret' = Returned(TRUE, "")
                  /\ UNCHANGED k8sResInfo
             ELSE /\ pc' = "read"
                  /\ ret' = <<>>
                  /\ k8sResInfo' = ResolvePorts(k8sResInfo, svcStore, svcLabelKeys, storeErr)
    /\ retry' = 0
    /\ k8sConfigured' = FALSE
    /\ matchedCfg' = FALSE
    /\ verRead' = 0
    /\ op' = ""
    /\ err' = ""
    /\ getErr' = <<>>
    /\ issued' = <<>>
    /\ calls' = NoCalls
    /\ UNCHANGED <<regVars, storeVars, k8sVersion, callsLeft>>
    /\ UNCHANGED enforcerProbeVars

\* The head of one attempt: the read phase and the choice of the operation.
ConfigRead ==
    /\ pc = "read"
    /\ \E storeErr \in {"", ErrForbidden} :
          LET get == GetResource(gate, storeErr)
              r == isK8sConfiguredAsExpected(k8sResInfo, get, admCaBundle, k8sVersion)
              o == SelectOp(r.found, r.matched, ctrlState.Enable)
          IN  /\ k8sConfigured' = r.found
              /\ matchedCfg' = r.matched
              /\ verRead' = r.verRead
              /\ err' = r.err
              /\ getErr' = IF SupportedName(k8sResInfo.Name) THEN <<get.err>> ELSE <<>>
              /\ issued' = <<>>
              /\ calls' = IF SupportedName(k8sResInfo.Name)
                          THEN Issue(calls, "GetResource")
                          ELSE calls
              /\ IF SkipAfterRead(r.found, r.matched, ctrlState.Enable, r.err)
                 THEN /\ op' = ""
                      /\ pc' = "done"
                      /\ ret' = Returned(TRUE, "")
                      /\ UNCHANGED retry
                 ELSE IF o # ""
                 THEN /\ op' = o
                      /\ pc' = "apply"
                      /\ UNCHANGED <<ret, retry>>
                 ELSE /\ op' = o
                      /\ retry' = retry + 1
                      /\ pc' = IF retry + 1 < MaxRetry THEN "read" ELSE "done"
                      /\ ret' = IF retry + 1 < MaxRetry THEN ret ELSE Returned(TRUE, r.err)
    /\ UNCHANGED <<regVars, storeVars, k8sVersion, k8sResInfo, ctrlState, callsLeft>>
    /\ UNCHANGED enforcerProbeVars

\* The tail of one attempt: configK8sAdmCtrlValidateResource and what follows it.
ConfigApply ==
    /\ pc = "apply"
    /\ \E storeErr \in {"", ErrStore} :
          LET req == ValidateResourceRequest(op, verRead, k8sResInfo, admCaBundle, k8sVersion)
              res == IF req.err # ""
                     THEN [err |-> req.err, gate |-> gate, rvNext |-> rvNext]
                     ELSE StoreApply(gate, rvNext, req.call[1], storeErr)
          IN  /\ err' = res.err
              /\ getErr' = <<>>
              /\ issued' = IF req.err # ""
                           THEN <<>>
                           ELSE <<[verb |-> req.call[1].verb,
                                   ResourceVersion |-> req.call[1].ResourceVersion]>>
              /\ gate' = res.gate
              /\ rvNext' = res.rvNext
              /\ calls' = IF req.err # ""
                          THEN calls
                          ELSE Issue(calls, req.call[1].verb)
              /\ IF res.err = ""
                 THEN /\ pc' = "done"
                      /\ ret' = Returned(FALSE, "")
                      /\ UNCHANGED retry
                 ELSE /\ retry' = retry + 1
                      /\ pc' = IF retry + 1 < MaxRetry THEN "read" ELSE "done"
                      /\ ret' = IF retry + 1 < MaxRetry THEN ret ELSE Returned(TRUE, res.err)
    /\ UNCHANGED <<regVars, svcStore, extLeft, k8sVersion, k8sResInfo, ctrlState,
                   k8sConfigured, matchedCfg, verRead, op, callsLeft>>
    /\ UNCHANGED enforcerProbeVars

\* The caller takes the result; it may call again.
ConfigReturn ==
    /\ pc = "done"
    /\ pc' = "idle"
    /\ callsLeft' = callsLeft - 1
    /\ retry' = 0
    /\ k8sConfigured' = FALSE
    /\ matchedCfg' = FALSE
    /\ verRead' = 0
    /\ op' = ""
    /\ err' = ""
    /\ getErr' = <<>>
    /\ issued' = <<>>
    /\ ret' = <<>>
    /\ calls' = NoCalls
    /\ UNCHANGED <<regVars, storeVars, k8sVersion, k8sResInfo, ctrlState>>
    /\ UNCHANGED enforcerProbeVars

---------------------------------------------------------------------------
(* Other writers of the gate resource, and the registry's callers.         *)

\* The services of the webhooks of a configuration.
ServicesOf(info) ==
    {info.WebhooksInfo[i].ClientConfig.ServiceName : i \in 1..Len(info.WebhooksInfo)}

HasUrlMode(info) ==
    \E i \in 1..Len(info.WebhooksInfo) :
        info.WebhooksInfo[i].ClientConfig.ClientMode = AdmClientModeUrl

ExtWriteGate ==
    /\ extLeft > 0
    /\ callsLeft > 0
    /\ pc # "done"
    /\ \E o \in ExtGateObjects(k8sResInfo, k8sVersion) :
          gate' = <<[gen |-> o.gen, Name |-> o.Name, ResourceVersion |-> rvNext,
                     Webhooks |-> o.Webhooks]>>
    /\ rvNext' = rvNext + 1
    /\ extLeft' = extLeft - 1
    /\ UNCHANGED <<regVars, svcStore, k8sVersion, cfgVars>>
    /\ UNCHANGED enforcerProbeVars

ExtDeleteGate ==
    /\ extLeft > 0
    /\ callsLeft > 0
    /\ pc # "done"
    /\ gate # <<>>
    /\ gate' = <<>>
    /\ extLeft' = extLeft - 1
    /\ UNCHANGED <<regVars, svcStore, rvNext, k8sVersion, cfgVars>>
    /\ UNCHANGED enforcerProbeVars

RegSetCABundle ==
    /\ pc = "idle"
    /\ callsLeft > 0
    /\ \E svcName \in ServicesOf(k8sResInfo), b \in GateBundles : SetCABundle(svcName, b)
    /\ UNCHANGED <<storeVars, k8sVersion, cfgVars>>
    /\ UNCHANGED enforcerProbeVars

RegResetCABundle ==
    /\ pc = "idle"
    /\ callsLeft > 0
    /\ \E svcName \in ServicesOf(k8sResInfo), b \in GateBundles : ResetCABundle(svcName, b)
    /\ UNCHANGED <<storeVars, k8sVersion, cfgVars>>
    /\ UNCHANGED enforcerProbeVars

---------------------------------------------------------------------------
(* The namespace label enforcer: VerifyK8sNs, workSingleK8sNsLabels and    *)
(* UpdateAllowedK8sNs.  A label map is a function from the keys present.   *)

Namespaces == {NvAdmSvcNamespace, "apps"}
\* The order in which ListResource answers the namespaces.
NsScanOrder == <<NvAdmSvcNamespace, "apps">>
NsLabelKeys == {NsSelectorKeySkipNV, NsSelectorKeyStatusNV, NsSelectorKeyCtrlPlane}
OtherLabelKey == "team"

LabelMap(keys, value) == [k \in keys |-> value]
NsLabelMaps ==
    { LabelMap({}, "x"),
      LabelMap({NsSelectorKeySkipNV, OtherLabelKey}, "x"),
      LabelMap({NsSelectorKeyStatusNV, NsSelectorKeyCtrlPlane}, "x") }

AllowedSets == {{}, {"apps"}}
AllowedWildSets == {{}, {"app*"}}
DefAllowedSets == {{}, {"apps"}}

\* share.EqualMatch on the patterns of the model: "*" stands for any suffix.
EqualMatch(pattern, name) ==
    \/ pattern = name
    \/ (pattern = "app*" /\ name = "apps")
    \/ (pattern = "neu*" /\ name = "neuvector")

ShouldExist == "shouldExist"
ShouldNotExist == "shouldNotExist"
CouldExist == "nil"

\* A VerifyK8sNs that looks at the exact allowed set only.
DesiredLabelKeysExactOnly(admCtrlEnabled, nsName, allowedNS, allowedNsWild, defAllowedNS, ctrlPlaneOp) ==
    [k \in NsLabelKeys |->
        IF k = NsSelectorKeySkipNV
        THEN IF admCtrlEnabled /\ nsName \in allowedNS
             THEN ShouldExist ELSE ShouldNotExist
        ELSE IF k = NsSelectorKeyStatusNV
        THEN IF admCtrlEnabled /\ NvAdmSvcNamespace = nsName
             THEN ShouldExist ELSE ShouldNotExist
        ELSE IF /\ admCtrlEnabled
                /\ ctrlPlaneOp = NsSelectorOpNotExist
                /\ nsName \notin defAllowedNS
             THEN ShouldNotExist ELSE CouldExist]

(* labelKeys of VerifyK8sNs.  A key the map does not hold is, like a key   *)
(* mapped to nil, one that could exist or not.                             *)
DesiredLabelKeys(admCtrlEnabled, nsName, allowedNS, allowedNsWild, defAllowedNS, ctrlPlaneOp) ==
    [k \in NsLabelKeys |->
        IF k = NsSelectorKeySkipNV
        THEN IF /\ admCtrlEnabled
                /\ \/ nsName \in allowedNS
                   \/ \E w \in allowedNsWild : EqualMatch(w, nsName)
             THEN ShouldExist ELSE ShouldNotExist
        ELSE IF k = NsSelectorKeyStatusNV
        THEN IF admCtrlEnabled /\ NvAdmSvcNamespace = nsName
             THEN ShouldExist ELSE ShouldNotExist
        ELSE IF /\ admCtrlEnabled
                /\ ctrlPlaneOp = NsSelectorOpNotExist
                /\ nsName \notin defAllowedNS
             THEN ShouldNotExist ELSE CouldExist]

\* The loop at the end of VerifyK8sNs: some key is not as it should be in nsLabels.
\* A VerifyK8sNs that looks for missing labels only.
LabelsDisagreeOnMissingOnly(labelKeys, nsLabels) ==
    \E k \in NsLabelKeys : labelKeys[k] = ShouldExist /\ k \notin DOMAIN nsLabels

\* The loop of VerifyK8sNs over labelKeys finds a key to correct in nsLabels.
LabelsDisagree(labelKeys, nsLabels) ==
    \E k \in NsLabelKeys :
        \/ (labelKeys[k] = ShouldExist /\ k \notin DOMAIN nsLabels)
        \/ (labelKeys[k] = ShouldNotExist /\ k \in DOMAIN nsLabels)

\* An enforcer that adds the missing labels and removes none.
CorrectedLabelsAddOnly(labelKeys, labels, selectorValue) ==
    [k \in DOMAIN labels \cup {x \in NsLabelKeys : labelKeys[x] = ShouldExist} |->
        IF k \in DOMAIN labels THEN labels[k] ELSE selectorValue]

\* The labels of the namespace object after the loop of workSingleK8sNsLabels.
CorrectedLabels(labelKeys, labels, selectorValue) ==
    [k \in (DOMAIN labels \cup {x \in NsLabelKeys : labelKeys[x] = ShouldExist})
              \ {x \in NsLabelKeys : labelKeys[x] = ShouldNotExist} |->
        IF k \in DOMAIN labels THEN labels[k] ELSE selectorValue]

\* A loop that sets needUpdate for an added label only.
NeedUpdateOnAddOnly(labelKeys, labels) ==
    \E k \in NsLabelKeys : labelKeys[k] = ShouldExist /\ k \notin DOMAIN labels

\* needUpdate of workSingleK8sNsLabels: the loop added or deleted a label.
NeedUpdate(labelKeys, labels) ==
    \E k \in NsLabelKeys :
        \/ (labelKeys[k] = ShouldExist /\ k \notin DOMAIN labels)
        \/ (labelKeys[k] = ShouldNotExist /\ k \in DOMAIN labels)

\* The error of UpdateResource on an object stored as obj, sent with resourceVersion.
UpdateResourceErr(obj, resourceVersion, storeErr) ==
    IF storeErr # "" THEN storeErr
    ELSE IF obj = <<>> THEN ErrNotFound
    ELSE IF obj[1].ResourceVersion # resourceVersion THEN ErrConflict
    ELSE ""

\* global.ORCH.ListResource(resource.RscTypeNamespace)
ListNamespaces(store, storeErr) ==
    IF storeErr # "" THEN <<>>
    ELSE [i \in 1..Len(NsScanOrder) |->
            [Name |-> NsScanOrder[i], Labels |-> store[NsScanOrder[i]].Labels]]

NoNsCall ==
    [name |-> "", enabled |-> FALSE, fresh |-> FALSE, prev |-> <<>>, extBefore |-> FALSE,
     extSeen |-> FALSE, entered |-> FALSE, failed |-> FALSE, updates |-> 0, done |-> TRUE]

\* VerifyK8sNs returns: the next pair of the queue, or the caller goes on.
NsFinish(cur, failed, updated) ==
    /\ nsCur' = [cur EXCEPT !.failed = failed,
                            !.updates = IF updated THEN @ + 1 ELSE @,
                            !.done = TRUE]
    /\ nsHist' = [nsHist EXCEPT ![cur.name] =
                    <<[enabled |-> cur.enabled, fresh |-> cur.fresh, entered |-> cur.entered,
                       failed |-> failed, updated |-> updated]>>]
    /\ nsExt' = [nsExt EXCEPT ![cur.name] = FALSE]
    /\ nsQueue' = Tail(nsQueue)
    /\ nsPc' = IF Tail(nsQueue) = <<>> THEN "idle" ELSE "verify"
    /\ nsObj' = <<>>
    /\ nsLabelKeys' = <<>>

\* An UpdateAllowedK8sNs that lists the namespaces on every replica.
UpdateAllowedListedOnAnyReplica(isLead, store, storeErr) ==
    [listCalls |-> 1, objs |-> ListNamespaces(store, storeErr)]

\* The ListResource calls of UpdateAllowedK8sNs and the namespaces it goes through.
UpdateAllowedListed(isLead, store, storeErr) ==
    IF isLead
    THEN [listCalls |-> 1, objs |-> ListNamespaces(store, storeErr)]
    ELSE [listCalls |-> 0, objs |-> <<>>]

\* A caller invokes VerifyK8sNs with the labels it holds of the namespace.
NsVerifyCall ==
    /\ nsPc = "idle"
    /\ nsCallsLeft > 0
    /\ \E admCtrlEnabled \in BOOLEAN, nsName \in Namespaces :
          \E nsLabels \in {nsStore[nsName].Labels} \cup NsLabelMaps :
             /\ nsEnabled' = admCtrlEnabled
             /\ nsQueue' = <<[Name |-> nsName, Labels |-> nsLabels]>>
    /\ nsPc' = "verify"
    /\ nsAllowedCall' = <<>>
    /\ nsCallsLeft' = nsCallsLeft - 1
    /\ UNCHANGED <<nsPolicyVars, nsStore, nsLabelKeys, nsObj, nsHist, nsExt, nsCur>>
    /\ UNCHANGED <<regVars, storeVars, k8sVersion, cfgVars>>
    /\ UNCHANGED <<probeVars, regCallVars>>

\* UpdateAllowedK8sNs: the sets are replaced; the leader verifies every namespace listed.
NsUpdateAllowedCall ==
    /\ nsPc = "idle"
    /\ nsCallsLeft > 0
    /\ \E isLead \in BOOLEAN, admCtrlEnabled \in BOOLEAN, storeErr \in {"", ErrStore} :
       \E newAllowedNS \in AllowedSets, newAllowedNsWild \in AllowedWildSets :
          LET listed == UpdateAllowedListed(isLead, nsStore, storeErr)
          IN  /\ (newAllowedNS = {} \/ newAllowedNsWild = {})
              /\ allowedNamespaces' = newAllowedNS
              /\ allowedNamespacesWild' = newAllowedNsWild
              /\ nsEnabled' = admCtrlEnabled
              /\ nsQueue' = listed.objs
              /\ nsPc' = IF listed.objs = <<>> THEN "idle" ELSE "verify"
              /\ nsAllowedCall' = <<[isLead |-> isLead, newAllowedNS |-> newAllowedNS,
                                     newAllowedNsWild |-> newAllowedNsWild,
                                     listCalls |-> listed.listCalls]>>
    /\ nsHist' = [n \in Namespaces |-> <<>>]
    /\ nsCallsLeft' = nsCallsLeft - 1
    /\ UNCHANGED <<defAllowedNamespaces, nsSelectorValue, ctrlPlaneOpInWhExpr, nsStore,
                   nsLabelKeys, nsObj, nsExt, nsCur>>
    /\ UNCHANGED <<regVars, storeVars, k8sVersion, cfgVars>>
    /\ UNCHANGED <<probeVars, regCallVars>>

\* VerifyK8sNs up to its call of workSingleK8sNsLabels.
NsVerify ==
    /\ nsPc = "verify"
    /\ LET nsName == Head(nsQueue).Name
           nsLabels == Head(nsQueue).Labels
           labelKeys == DesiredLabelKeys(nsEnabled, nsName, allowedNamespaces,
                                         allowedNamespacesWild, defAllowedNamespaces,
                                         ctrlPlaneOpInWhExpr)
           cur == [name |-> nsName, enabled |-> nsEnabled,
                   fresh |-> nsLabels = nsStore[nsName].Labels,
                   prev |-> nsHist[nsName], extBefore |-> nsExt[nsName], extSeen |-> FALSE,
                   entered |-> LabelsDisagree(labelKeys, nsLabels),
                   failed |-> FALSE, updates |-> 0, done |-> FALSE]
       IN  IF LabelsDisagree(labelKeys, nsLabels)
           THEN /\ nsPc' = "get"
                /\ nsLabelKeys' = labelKeys
                /\ nsCur' = cur
                /\ UNCHANGED <<nsQueue, nsHist, nsExt, nsObj>>
           ELSE NsFinish(cur, FALSE, FALSE)
    /\ UNCHANGED <<nsPolicyVars, nsStore, nsEnabled, nsCallsLeft>>
    /\ UNCHANGED <<regVars, storeVars, k8sVersion, cfgVars>>
    /\ UNCHANGED <<nsAllowedCall, probeVars, regCallVars>>

\* workSingleK8sNsLabels up to its call of UpdateResource.
NsGet ==
    /\ nsPc = "get"
    /\ \E storeErr \in {"", ErrStore} :
          LET nsName == Head(nsQueue).Name
              get == GetResource(<<nsStore[nsName]>>, storeErr)
          IN  IF get.err # ""
              THEN NsFinish(nsCur, TRUE, FALSE)
              ELSE IF NeedUpdate(nsLabelKeys, get.obj[1].Labels)
              THEN /\ nsObj' = <<[Name |-> nsName,
                                  Labels |-> CorrectedLabels(nsLabelKeys, get.obj[1].Labels,
                                                             nsSelectorValue),
                                  ResourceVersion |-> get.obj[1].ResourceVersion]>>
                   /\ nsPc' = "update"
                   /\ UNCHANGED <<nsQueue, nsHist, nsExt, nsCur, nsLabelKeys>>
              ELSE NsFinish(nsCur, FALSE, FALSE)
    /\ UNCHANGED <<nsPolicyVars, nsStore, nsEnabled, nsCallsLeft>>
    /\ UNCHANGED <<regVars, storeVars, k8sVersion, cfgVars>>
    /\ UNCHANGED <<nsAllowedCall, probeVars, regCallVars>>

\* The UpdateResource of workSingleK8sNsLabels and its return.
NsUpdate ==
    /\ nsPc = "update"
    /\ \E storeErr \in {"", ErrStore} :
          LET o == nsObj[1]
              e == UpdateResourceErr(<<nsStore[o.Name]>>, o.ResourceVersion, storeErr)
          IN  /\ nsStore' = IF e = ""
                            THEN [nsStore EXCEPT ![o.Name] =
                                    [Labels |-> o.Labels, ResourceVersion |-> rvNext]]
                            ELSE nsStore
              /\ rvNext' = IF e = "" THEN rvNext + 1 ELSE rvNext
              /\ NsFinish(nsCur, e # "", TRUE)
    /\ UNCHANGED <<nsPolicyVars, nsEnabled, nsCallsLeft>>
    /\ UNCHANGED <<regVars, gate, svcStore, extLeft, k8sVersion, cfgVars>>
    /\ UNCHANGED <<nsAllowedCall, probeVars, regCallVars>>

\* Another writer sets or removes one label of a namespace.
NsExtChange ==
    /\ extLeft > 0
    /\ (nsPc # "idle" \/ nsCallsLeft > 0)
    /\ \E nsName \in Namespaces, k \in NsLabelKeys :
          LET labels == nsStore[nsName].Labels
              changed == IF k \in DOMAIN labels
                         THEN [x \in DOMAIN labels \ {k} |-> labels[x]]
                         ELSE [x \in DOMAIN labels \cup {k} |->
                                 IF x = k THEN "x" ELSE labels[x]]
          IN  /\ nsStore' = [nsStore EXCEPT ![nsName] =
                                [Labels |-> changed, ResourceVersion |-> rvNext]]
              /\ nsExt' = [nsExt EXCEPT ![nsName] = TRUE]
              /\ nsCur' = IF nsCur.name = nsName /\ ~nsCur.done
                          THEN [nsCur EXCEPT !.extSeen = TRUE]
                          ELSE nsCur
    /\ rvNext' = rvNext + 1
    /\ extLeft' = extLeft - 1
    /\ UNCHANGED <<nsPolicyVars, nsPc, nsEnabled, nsQueue, nsLabelKeys, nsObj, nsHist,
                   nsCallsLeft>>
    /\ UNCHANGED <<regVars, gate, svcStore, k8sVersion, cfgVars>>
    /\ UNCHANGED <<nsAllowedCall, probeVars, regCallVars>>

\* The enforcer before InitK8sNsSelectorInfo, no namespace known.
NsAtRest ==
    /\ allowedNamespaces = {}
    /\ allowedNamespacesWild = {}
    /\ defAllowedNamespaces = {}
    /\ nsSelectorValue = ""
    /\ ctrlPlaneOpInWhExpr = NsSelectorOpNotExist
    /\ nsStore = [n \in Namespaces |-> [Labels |-> LabelMap({}, "x"), ResourceVersion |-> 0]]
    /\ nsPc = "idle"
    /\ nsEnabled = FALSE
    /\ nsQueue = <<>>
    /\ nsLabelKeys = <<>>
    /\ nsObj = <<>>
    /\ nsHist = [n \in Namespaces |-> <<>>]
    /\ nsExt = [n \in Namespaces |-> FALSE]
    /\ nsCur = NoNsCall
    /\ nsAllowedCall = <<>>
    /\ nsCallsLeft = 0

\* The reconciler not in use.
CfgAtRest ==
    /\ k8sVersion = <<1, 22>>
    /\ k8sResInfo = [Name |-> NvAdmValidatingName,
                     WebhooksInfo |-> <<AdmInfo(AdmClientModeSvc)>>]
    /\ gate = <<>>
    /\ ctrlState = [Uri |-> "", Enable |-> FALSE]
    /\ pc = "idle"
    /\ retry = 0
    /\ k8sConfigured = FALSE
    /\ matchedCfg = FALSE
    /\ verRead = 0
    /\ op = ""
    /\ err = ""
    /\ getErr = <<>>
    /\ issued = <<>>
    /\ ret = <<>>
    /\ calls = NoCalls
    /\ callsLeft = 0

---------------------------------------------------------------------------
(* The connectivity probe: TestAdmWebhookConnection (the initiator) and    *)
(* EchoAdmWebhookConnection (the responder) on one Service object.  A poll *)
(* takes time: the ticker and the signal channel, each of capacity 1, can  *)
(* both be filled while a store call is under way, and a select with both  *)
(* ready takes either.                                                     *)

TestSucceeded == 0
TestFailedAtRead == 1
TestFailedAtWrite == 2
TestFailed == 3
TestAborted == 4

ErrSvcLabelsUnknown == "svc labels unknown"

\* The service the probe is run on.
ProbeSvc == NvAdmSvcName

\* The poll budgets of the two loops.
TestPollsPlusOne == 10 + 1
TestPolls == 10
EchoPolls == 4

\* fmt.Sprintf("%d", time.Now().Unix())
TagOf(unixTime) == ToString(unixTime)

SetLabel(labels, key, value) ==
    [k \in DOMAIN labels \cup {key} |-> IF k = key THEN value ELSE labels[k]]
\* A delete that leaves the label where it is.
DeleteLabelKept(labels, key) == labels
DeleteLabel(labels, key) == [k \in DOMAIN labels \ {key} |-> labels[k]]

\* The UpdateResource of a Service: the error, and the store after it.
UpdateService(store, svcName, obj, storeErr, rv) ==
    LET e == UpdateResourceErr(store[svcName], obj.ResourceVersion, storeErr)
    IN  [err |-> e,
         store |-> IF e = ""
                   THEN [store EXCEPT ![svcName] = <<[obj EXCEPT !.ResourceVersion = <<rv>>]>>]
                   ELSE store]

TestReturned(outcome, e) == <<[outcome |-> outcome, err |-> e]>>

\* A count that is kept up to a limit.
CountUpTo(n, limit) == IF n < limit THEN n ELSE limit

\* TestAdmWebhookConnection up to its UpdateResource: the tag is the time of this step.
TestGet ==
    /\ tPc = "idle"
    /\ tRunsLeft > 0
    /\ tRunsLeft' = tRunsLeft - 1
    /\ tPolls' = 0
    /\ tSig' = FALSE
    /\ tTick' = FALSE
    /\ tSigged' = FALSE
    /\ tPollsAfterSig' = 0
    /\ tGetErr' = <<>>
    /\ \E storeErr \in {"", ErrStore} :
          LET get == GetService(svcStore, ProbeSvc, storeErr)
              keys == KeysOf(svcLabelKeys, ProbeSvc)
          IN  IF get.err # ""
              THEN /\ tRet' = TestReturned(TestFailedAtRead, get.err)
                   /\ tPc' = "done"
                   /\ UNCHANGED <<tTag, tObj>>
              ELSE IF keys = <<>>
              THEN /\ tRet' = TestReturned(TestFailedAtRead, ErrSvcLabelsUnknown)
                   /\ tPc' = "done"
                   /\ UNCHANGED <<tTag, tObj>>
              ELSE IF get.obj[1].ResourceVersion = <<>>
              THEN /\ tRet' = TestReturned(TestFailed, "")
                   /\ tPc' = "done"
                   /\ UNCHANGED <<tTag, tObj>>
              ELSE /\ tTag' = TagOf(now)
                   /\ tObj' = <<[get.obj[1] EXCEPT
                                   !.Labels = DeleteLabel(SetLabel(@, keys[1].TagKey, TagOf(now)),
                                                          keys[1].EchoKey)]>>
                   /\ tPc' = "write"
                   /\ tRet' = <<>>
    /\ UNCHANGED <<now, rVars>>
    /\ UNCHANGED <<regVars, storeVars, k8sVersion, cfgVars, nsVars, regCallVars>>
    /\ echoSince' = FALSE

\* The UpdateResource of the tag, and the start of the ticker.
TestWrite ==
    /\ tPc = "write"
    /\ \E storeErr \in {"", ErrStore} :
          LET w == UpdateService(svcStore, ProbeSvc, tObj[1], storeErr, rvNext)
          IN  /\ svcStore' = w.store
              /\ rvNext' = IF w.err = "" THEN rvNext + 1 ELSE rvNext
              /\ IF w.err # ""
                 THEN tRet' = TestReturned(TestFailedAtWrite, w.err) /\ tPc' = "done"
                 ELSE tRet' = <<>> /\ tPc' = "select"
    /\ tObj' = <<>>
    /\ UNCHANGED <<now, tTag, tPolls, tTick, tSig, tSigged, tPollsAfterSig, tGetErr,
                   tRunsLeft, rVars>>
    /\ UNCHANGED <<regVars, gate, extLeft, k8sVersion, cfgVars, nsVars, regCallVars>>
    /\ echoSince' = FALSE

\* The select of the poll loop: the ticker case or the signal case, whichever is ready.
TestSelect ==
    /\ tPc = "select"
    /\ \/ /\ tTick
          /\ tTick' = FALSE
          /\ tPc' = "poll"
          /\ tPollsAfterSig' = IF tSigged THEN CountUpTo(tPollsAfterSig + 1, MaxCounted)
                                ELSE tPollsAfterSig
          /\ UNCHANGED <<tSig, tRet>>
       \/ /\ tSig
          /\ tSig' = FALSE
          /\ tPc' = "done"
          /\ tRet' = TestReturned(TestAborted, "")
          /\ UNCHANGED <<tTick, tPollsAfterSig>>
    /\ UNCHANGED <<now, tTag, tObj, tPolls, tSigged, tGetErr, tRunsLeft, rVars>>
    /\ UNCHANGED <<regVars, storeVars, k8sVersion, cfgVars, nsVars, regCallVars>>
    /\ UNCHANGED echoSince

\* The ticker case: GetValidateWebhookSvcInfo and the comparison with the tag.
TestPoll ==
    /\ tPc = "poll"
    /\ \E storeErr \in {"", ErrStore} :
          LET get == GetService(svcStore, ProbeSvc, storeErr)
              svcInfo == GetValidateWebhookSvcInfo(get, KeysOf(svcLabelKeys, ProbeSvc))
          IN  /\ tGetErr' = <<svcInfo.err>>
              /\ IF svcInfo.err = "" /\ svcInfo.LabelTag = tTag /\ svcInfo.LabelEcho = tTag
                 THEN tRet' = TestReturned(TestSucceeded, "") /\ tPc' = "done"
                 ELSE IF tPolls + 1 < TestPolls
                 THEN tRet' = <<>> /\ tPc' = "select"
                 ELSE tRet' = TestReturned(TestFailed, "") /\ tPc' = "done"
    /\ tPolls' = tPolls + 1
    /\ UNCHANGED <<now, tTag, tObj, tTick, tSig, tSigged, tPollsAfterSig, tRunsLeft, rVars>>
    /\ UNCHANGED <<regVars, storeVars, k8sVersion, cfgVars, nsVars, regCallVars>>
    /\ UNCHANGED echoSince

\* The caller takes the outcome.
TestReturn ==
    /\ tPc = "done"
    /\ tPc' = "idle"
    /\ tRet' = <<>>
    /\ tTick' = FALSE
    /\ tSig' = FALSE
    /\ UNCHANGED <<now, tTag, tObj, tPolls, tSigged, tPollsAfterSig, tGetErr, tRunsLeft, rVars>>
    /\ UNCHANGED <<regVars, storeVars, k8sVersion, cfgVars, nsVars, regCallVars>>
    /\ UNCHANGED echoSince

\* EchoAdmWebhookConnection up to its loop: the registry lookup and the ticker.  The
\* webhook server starts it on a Service update that carries a tag, which the store
\* admits before the initiator's first poll.
EchoStart ==
    /\ rPc = "idle"
    /\ tPolls = 0
    /\ tPc # "done"
    /\ rRunsLeft > 0
    /\ rRunsLeft' = rRunsLeft - 1
    /\ \E tagExpected \in {LabelOf(svcStore[ProbeSvc][1].Labels, TagKeyOf(ProbeSvc)),
                           TagOf(ProbeEpoch)} :
          rTagExpected' = tagExpected
    /\ rPc' = IF KeysOf(svcLabelKeys, ProbeSvc) = <<>> THEN "done" ELSE "select"
    /\ rPolls' = 0
    /\ rEchoed' = FALSE
    /\ rConflicted' = FALSE
    /\ rTick' = FALSE
    /\ rSig' = FALSE
    /\ rSigged' = FALSE
    /\ rPollsAfterSig' = 0
    /\ rObj' = <<>>
    /\ UNCHANGED <<now, tVars>>
    /\ UNCHANGED <<regVars, storeVars, k8sVersion, cfgVars, nsVars, regCallVars>>
    /\ UNCHANGED echoSince

\* The select of the responder's loop.
EchoSelect ==
    /\ rPc = "select"
    /\ \/ /\ rTick
          /\ rTick' = FALSE
          /\ rPc' = "get"
          /\ rPollsAfterSig' = IF rSigged THEN CountUpTo(rPollsAfterSig + 1, MaxCounted)
                                ELSE rPollsAfterSig
          /\ UNCHANGED rSig
       \/ /\ rSig
          /\ rSig' = FALSE
          /\ rPc' = "done"
          /\ UNCHANGED <<rTick, rPollsAfterSig>>
    /\ UNCHANGED <<now, rTagExpected, rPolls, rEchoed, rConflicted, rSigged, rObj,
                   rRunsLeft, tVars>>
    /\ UNCHANGED <<regVars, storeVars, k8sVersion, cfgVars, nsVars, regCallVars>>
    /\ UNCHANGED echoSince

\* The ticker case: GetResource and the comparison with the expected tag.
EchoGet ==
    /\ rPc = "get"
    /\ \E storeErr \in {"", ErrStore} :
          LET get == GetService(svcStore, ProbeSvc, storeErr)
              keys == KeysOf(svcLabelKeys, ProbeSvc)
              svc == get.obj[1]
          IN  IF /\ get.err = ""
                 /\ svc.ResourceVersion # <<>>
                 /\ DOMAIN svc.Labels # {}
                 /\ keys[1].TagKey \in DOMAIN svc.Labels
                 /\ svc.Labels[keys[1].TagKey] = rTagExpected
              THEN /\ rObj' = <<[svc EXCEPT
                                   !.Labels = SetLabel(@, keys[1].EchoKey, rTagExpected)]>>
                   /\ rPc' = "write"
                   /\ UNCHANGED rPolls
              ELSE /\ rObj' = <<>>
                   /\ rPolls' = rPolls + 1
                   /\ rPc' = IF rPolls + 1 < EchoPolls THEN "select" ELSE "done"
    /\ UNCHANGED <<now, rTagExpected, rEchoed, rConflicted, rTick, rSig, rSigged,
                   rPollsAfterSig,
                   rRunsLeft, tVars>>
    /\ UNCHANGED <<regVars, storeVars, k8sVersion, cfgVars, nsVars, regCallVars>>
    /\ UNCHANGED echoSince

\* The UpdateResource of the echo label.
EchoWrite ==
    /\ rPc = "write"
    /\ \E storeErr \in {"", ErrStore} :
          LET w == UpdateService(svcStore, ProbeSvc, rObj[1], storeErr, rvNext)
          IN  /\ svcStore' = w.store
              /\ rvNext' = IF w.err = "" THEN rvNext + 1 ELSE rvNext
              /\ rEchoed' = (w.err = "")
              /\ rConflicted' = (rConflicted \/ w.err = ErrConflict)
              /\ rPolls' = rPolls + 1
              /\ rPc' = IF w.err = "" THEN "done"
                        ELSE IF rPolls + 1 < EchoPolls THEN "select" ELSE "done"
    /\ rObj' = <<>>
    /\ UNCHANGED <<now, rTagExpected, rTick, rSig, rSigged, rPollsAfterSig, rRunsLeft, tVars>>
    /\ UNCHANGED <<regVars, gate, extLeft, k8sVersion, cfgVars, nsVars, regCallVars>>
    /\ echoSince' = \/ echoSince
                    \/ /\ svcStore' # svcStore
                       /\ tPc \in {"select", "poll"}
                       /\ LabelOf(rObj[1].Labels, EchoKeyOf(ProbeSvc)) = tTag

EchoReturn ==
    /\ rPc = "done"
    /\ rPc' = "idle"
    /\ rTick' = FALSE
    /\ rSig' = FALSE
    /\ UNCHANGED <<now, rTagExpected, rPolls, rEchoed, rConflicted, rSigged,
                   rPollsAfterSig, rObj,
                   rRunsLeft, tVars>>
    /\ UNCHANGED <<regVars, storeVars, k8sVersion, cfgVars, nsVars, regCallVars>>
    /\ UNCHANGED echoSince

\* A role is inside its poll loop: its ticker runs and its signal channel is registered.
TestInLoop == tPc \in {"select", "poll"}
EchoInLoop == rPc \in {"select", "get", "write"}

\* One second passes: time.Tick fills the ticker of each loop that has room.  Time does
\* not pass while a role stands at a select with a case ready, and the clock is followed
\* only as long as a probe may still read it.
Tick ==
    /\ ~(tPc = "select" /\ (tTick \/ tSig))
    /\ ~(rPc = "select" /\ (rTick \/ rSig))
    /\ \/ TestInLoop /\ ~tTick
       \/ EchoInLoop /\ ~rTick
       \/ tPc = "idle" /\ tRunsLeft > 0 /\ now < ProbeEpoch + MaxIdleTicks
    /\ now' = IF tPc = "idle" /\ tRunsLeft > 0 THEN now + 1 ELSE now
    /\ tTick' = (tTick \/ TestInLoop)
    /\ rTick' = (rTick \/ EchoInLoop)
    /\ UNCHANGED <<tPc, tTag, tObj, tPolls, tSig, tSigged, tPollsAfterSig, tGetErr, tRet,
                   tRunsLeft>>
    /\ UNCHANGED <<rPc, rTagExpected, rPolls, rEchoed, rConflicted, rSig, rSigged,
                   rPollsAfterSig,
                   rObj, rRunsLeft>>
    /\ UNCHANGED <<regVars, storeVars, k8sVersion, cfgVars, nsVars, regCallVars>>
    /\ UNCHANGED echoSince

\* os.Interrupt or SIGTERM reaches the process: signal.Notify passes it to the c_sig
\* of each loop that is running.
Signal ==
    /\ TestInLoop \/ EchoInLoop
    /\ ~tSigged
    /\ ~rSigged
    /\ tSig' = TestInLoop
    /\ tSigged' = TestInLoop
    /\ rSig' = EchoInLoop
    /\ rSigged' = EchoInLoop
    /\ UNCHANGED <<now, tPc, tTag, tObj, tPolls, tTick, tPollsAfterSig, tGetErr, tRet,
                   tRunsLeft>>
    /\ UNCHANGED <<rPc, rTagExpected, rPolls, rEchoed, rConflicted, rTick,
                   rPollsAfterSig, rObj, rRunsLeft>>
    /\ UNCHANGED <<regVars, storeVars, k8sVersion, cfgVars, nsVars, regCallVars>>
    /\ UNCHANGED echoSince

\* One controller alone.
ReplicasAtRest == replicas = <<>>

\* No caller of the registry is followed.
RegAtRest ==
    /\ regCall = <<>>
    /\ regLeft = 0

ProbeAtRest ==
    /\ now = ProbeEpoch
    /\ tPc = "idle"
    /\ tTag = ""
    /\ tObj = <<>>
    /\ tPolls = 0
    /\ tTick = FALSE
    /\ tSig = FALSE
    /\ tSigged = FALSE
    /\ tPollsAfterSig = 0
    /\ tGetErr = <<>>
    /\ tRet = <<>>
    /\ tRunsLeft = 0
    /\ rPc = "idle"
    /\ rTagExpected = ""
    /\ rPolls = 0
    /\ rEchoed = FALSE
    /\ rConflicted = FALSE
    /\ rTick = FALSE
    /\ rSig = FALSE
    /\ rSigged = FALSE
    /\ rPollsAfterSig = 0
    /\ rObj = <<>>
    /\ rRunsLeft = 0
    /\ echoSince = FALSE

---------------------------------------------------------------------------

SvcObjects ==
    { [ResourceVersion |-> <<0>>, Labels |-> <<>>, Type |-> ServiceTypeClusterIP,
       NodePort |-> <<>>] }
    \cup { [ResourceVersion |-> <<0>>, Labels |-> <<>>, Type |-> ServiceTypeNodePort,
            NodePort |-> <<p>>] : p \in NodePorts }

Init ==
    /\ admCaBundle = [svcName \in Services |-> ""]
    /\ svcLabelKeys = [svcName \in Services |-> <<>>]
    /\ k8sVersion \in Versions
    /\ k8sResInfo \in GateSpecs
    /\ gate = <<>>
    /\ \E o \in SvcObjects :
          /\ svcStore = [svcName \in Services |-> <<o>>]
          /\ (o.Type = ServiceTypeNodePort => HasUrlMode(k8sResInfo))
    /\ rvNext = 1
    /\ extLeft = MaxExt
    /\ ctrlState = [Uri |-> "", Enable |-> FALSE]
    /\ pc = "idle"
    /\ retry = 0
    /\ k8sConfigured = FALSE
    /\ matchedCfg = FALSE
    /\ verRead = 0
    /\ op = ""
    /\ err = ""
    /\ getErr = <<>>
    /\ issued = <<>>
    /\ ret = <<>>
    /\ calls = NoCalls
    /\ callsLeft = MaxCalls
    /\ NsAtRest
    /\ ProbeAtRest
    /\ RegAtRest
    /\ ReplicasAtRest

Next ==
    \/ ConfigStart
    \/ ConfigRead
    \/ ConfigApply
    \/ ConfigReturn
    \/ ExtWriteGate
    \/ ExtDeleteGate
    \/ RegSetCABundle
    \/ RegResetCABundle

Spec == Init /\ [][Next]_vars

---------------------------------------------------------------------------
(* The read phase alone, on every actual resource of AllGateObjects: one   *)
(* call of isK8sConfiguredAsExpected from a state the store and the        *)
(* registry can be in.                                                     *)

InitRead ==
    /\ admCaBundle \in [Services -> GateBundles]
    /\ svcLabelKeys = [svcName \in Services |-> <<>>]
    /\ k8sVersion \in Versions
    /\ \E info \in GateSpecs, storeErr \in {"", ErrForbidden}, o \in SvcObjects :
          /\ svcStore = [svcName \in Services |-> <<o>>]
          /\ (o.Type = ServiceTypeNodePort => HasUrlMode(info))
          /\ k8sResInfo = ResolvePorts(info, svcStore, svcLabelKeys, storeErr)
    /\ \/ gate = <<>>
       \/ \E o \in AllGateObjects(k8sResInfo, k8sVersion) :
             gate = <<[gen |-> o.gen, Name |-> o.Name, ResourceVersion |-> 1,
                       Webhooks |-> o.Webhooks]>>
    /\ rvNext = 2
    /\ extLeft = 0
    /\ ctrlState = [Uri |-> "/v1/validate", Enable |-> TRUE]
    /\ pc = "idle"
    /\ retry = 0
    /\ k8sConfigured = FALSE
    /\ matchedCfg = FALSE
    /\ verRead = 0
    /\ op = ""
    /\ err = ""
    /\ getErr = <<>>
    /\ issued = <<>>
    /\ ret = <<>>
    /\ calls = NoCalls
    /\ callsLeft = 0
    /\ NsAtRest
    /\ ProbeAtRest
    /\ RegAtRest
    /\ ReplicasAtRest

ReadOnce ==
    /\ pc = "idle"
    /\ \E storeErr \in {"", ErrForbidden} :
          LET get == GetResource(gate, storeErr)
              r == isK8sConfiguredAsExpected(k8sResInfo, get, admCaBundle, k8sVersion)
          IN  /\ k8sConfigured' = r.found
              /\ matchedCfg' = r.matched
              /\ verRead' = r.verRead
              /\ err' = r.err
              /\ getErr' = IF SupportedName(k8sResInfo.Name) THEN <<get.err>> ELSE <<>>
              /\ issued' = <<>>
    /\ pc' = "readDone"
    /\ UNCHANGED <<regVars, storeVars, k8sVersion, k8sResInfo, ctrlState, retry, op, ret,
                   calls, callsLeft>>
    /\ UNCHANGED enforcerProbeVars

NextRead == ReadOnce

SpecRead == InitRead /\ [][NextRead]_vars

---------------------------------------------------------------------------
(* Two controller replicas, with the same bundles and on the same server,  *)
(* each in one call of ConfigK8sAdmissionControl(k8sResInfo, enabled) on   *)
(* the same store; the store answers every call and nobody else writes.    *)
(* Each replica has the locals of the call of its own.                     *)

Replicas == {1, 2}

ReplicaStart ==
    [pc |-> "read", retry |-> 0, k8sConfigured |-> FALSE, matchedCfg |-> FALSE,
     verRead |-> 0, op |-> "", err |-> "", ret |-> <<>>]

\* The locals after the head of one attempt, rd being the result of the read phase.
ReplicaAfterRead(loc, rd, enable) ==
    LET o == SelectOp(rd.found, rd.matched, enable)
        read == [loc EXCEPT !.k8sConfigured = rd.found, !.matchedCfg = rd.matched,
                            !.verRead = rd.verRead, !.err = rd.err]
    IN  IF SkipAfterRead(rd.found, rd.matched, enable, rd.err)
        THEN [read EXCEPT !.op = "", !.pc = "done", !.ret = Returned(TRUE, "")]
        ELSE IF o # ""
        THEN [read EXCEPT !.op = o, !.pc = "apply"]
        ELSE [read EXCEPT !.op = o, !.retry = @ + 1,
                          !.pc = IF loc.retry + 1 < MaxRetry THEN "read" ELSE "done",
                          !.ret = IF loc.retry + 1 < MaxRetry THEN @
                                  ELSE Returned(TRUE, rd.err)]

\* The locals after the tail of one attempt, applyErr being the error of the apply step.
ReplicaAfterApply(loc, applyErr) ==
    IF applyErr = ""
    THEN [loc EXCEPT !.err = "", !.pc = "done", !.ret = Returned(FALSE, "")]
    ELSE [loc EXCEPT !.err = applyErr, !.retry = @ + 1,
                     !.pc = IF loc.retry + 1 < MaxRetry THEN "read" ELSE "done",
                     !.ret = IF loc.retry + 1 < MaxRetry THEN @
                             ELSE Returned(TRUE, applyErr)]

ReplicaRead(r) ==
    /\ replicas[r].pc = "read"
    /\ LET rd == isK8sConfiguredAsExpected(k8sResInfo, GetResource(gate, ""), admCaBundle,
                                           k8sVersion)
       IN  replicas' = [replicas EXCEPT ![r] = ReplicaAfterRead(@, rd, ctrlState.Enable)]
    /\ UNCHANGED <<regVars, storeVars, k8sVersion, k8sResInfo, ctrlState, pc, retry,
                   k8sConfigured, matchedCfg, verRead, op, err, getErr, issued, ret, calls,
                   callsLeft, nsVars, probeVars, regCallVars>>

ReplicaApply(r) ==
    /\ replicas[r].pc = "apply"
    /\ LET req == ValidateResourceRequest(replicas[r].op, replicas[r].verRead, k8sResInfo,
                                          admCaBundle, k8sVersion)
           res == IF req.err # ""
                  THEN [err |-> req.err, gate |-> gate, rvNext |-> rvNext]
                  ELSE StoreApply(gate, rvNext, req.call[1], "")
       IN  /\ gate' = res.gate
           /\ rvNext' = res.rvNext
           /\ replicas' = [replicas EXCEPT ![r] = ReplicaAfterApply(@, res.err)]
    /\ UNCHANGED <<regVars, svcStore, extLeft, k8sVersion, k8sResInfo, ctrlState, pc, retry,
                   k8sConfigured, matchedCfg, verRead, op, err, getErr, issued, ret, calls,
                   callsLeft, nsVars, probeVars, regCallVars>>

InitTwo ==
    /\ admCaBundle = ConstBundles("ca1")
    /\ svcLabelKeys = [svcName \in Services |-> <<>>]
    /\ k8sVersion \in Versions
    /\ \E info \in GateSpecs, o \in SvcObjects :
          /\ WellFormed(info)
          /\ svcStore = [svcName \in Services |-> <<o>>]
          /\ (o.Type = ServiceTypeNodePort => HasUrlMode(info))
          /\ k8sResInfo = ResolvePorts(info, svcStore, svcLabelKeys, "")
    /\ \/ gate = <<>>
       \/ \E o \in AllGateObjects(k8sResInfo, k8sVersion) :
             /\ o.gen \in {GenV1, GenV1Beta1}
             /\ gate = <<[gen |-> o.gen, Name |-> o.Name, ResourceVersion |-> 1,
                          Webhooks |-> o.Webhooks]>>
    /\ rvNext = 2
    /\ extLeft = 0
    /\ ctrlState = [Uri |-> "/v1/validate", Enable |-> TRUE]
    /\ pc = "idle"
    /\ retry = 0
    /\ k8sConfigured = FALSE
    /\ matchedCfg = FALSE
    /\ verRead = 0
    /\ op = ""
    /\ err = ""
    /\ getErr = <<>>
    /\ issued = <<>>
    /\ ret = <<>>
    /\ calls = NoCalls
    /\ callsLeft = 0
    /\ NsAtRest
    /\ ProbeAtRest
    /\ RegAtRest
    /\ replicas = [r \in Replicas |-> ReplicaStart]

NextTwo == \E r \in Replicas : ReplicaRead(r) \/ ReplicaApply(r)

\* Each replica goes on as long as its call has not returned.
SpecTwo ==
    /\ InitTwo
    /\ [][NextTwo]_vars
    /\ \A r \in Replicas : WF_vars(ReplicaRead(r) \/ ReplicaApply(r))

---------------------------------------------------------------------------
(* UnregK8sAdmissionControl alone, on every store of InitRead: one delete  *)
(* of a resource by its name.  ret names the resource and holds the error  *)
(* handed to the caller.                                                   *)

UnregNames == {NvAdmValidatingName, NvCrdValidatingName}

\* The resource the store holds under a name: gate is the one named k8sResInfo.Name.
StoredAs(nvAdmName) == IF nvAdmName = k8sResInfo.Name THEN gate ELSE <<>>

UnregK8sAdmissionControl ==
    /\ pc = "idle"
    /\ \E nvAdmName \in UnregNames, storeErr \in {"", ErrStore} :
          LET req == ValidateResourceRequest(K8sResOpDelete, 0,
                                             [Name |-> nvAdmName, WebhooksInfo |-> <<>>],
                                             admCaBundle, k8sVersion)
              res == StoreApply(StoredAs(nvAdmName), rvNext, req.call[1], storeErr)
          IN  /\ err' = res.err
              /\ issued' = <<[verb |-> req.call[1].verb,
                              ResourceVersion |-> req.call[1].ResourceVersion]>>
              /\ gate' = IF nvAdmName = k8sResInfo.Name THEN res.gate ELSE gate
              /\ rvNext' = res.rvNext
              /\ ret' = <<[name |-> nvAdmName, err |-> res.err]>>
    /\ op' = K8sResOpDelete
    /\ pc' = "unregDone"
    /\ UNCHANGED <<regVars, svcStore, extLeft, k8sVersion, k8sResInfo, ctrlState, retry,
                   k8sConfigured, matchedCfg, verRead, getErr, calls, callsLeft>>
    /\ UNCHANGED enforcerProbeVars

NextUnreg == UnregK8sAdmissionControl

SpecUnreg == InitRead /\ [][NextUnreg]_vars

---------------------------------------------------------------------------
(* The enforcer alone: InitK8sNsSelectorInfo has set the sets and the      *)
(* selector value and has listed the namespaces; its callers then call     *)
(* VerifyK8sNs and UpdateAllowedK8sNs while other writers change labels.   *)

InitNs ==
    /\ admCaBundle = [svcName \in Services |-> ""]
    /\ svcLabelKeys = [svcName \in Services |-> <<>>]
    /\ svcStore = [svcName \in Services |-> <<>>]
    /\ CfgAtRest
    /\ rvNext = 1
    /\ extLeft = MaxNsExt
    /\ allowedNamespaces \in AllowedSets
    /\ allowedNamespacesWild \in AllowedWildSets
    /\ (allowedNamespaces = {} \/ allowedNamespacesWild = {})
    /\ defAllowedNamespaces \in DefAllowedSets
    /\ nsSelectorValue = "enabled"
    /\ ctrlPlaneOpInWhExpr \in {NsSelectorOpNotExist, NsSelectorOpExists}
    /\ \E m \in NsLabelMaps :
          nsStore = [n \in Namespaces |-> [Labels |-> m, ResourceVersion |-> 0]]
    /\ nsEnabled \in BOOLEAN
    /\ \E storeErr \in {"", ErrStore} :
          /\ nsQueue = ListNamespaces(nsStore, storeErr)
          /\ nsPc = IF nsQueue = <<>> THEN "idle" ELSE "verify"
    /\ nsLabelKeys = <<>>
    /\ nsObj = <<>>
    /\ nsHist = [n \in Namespaces |-> <<>>]
    /\ nsExt = [n \in Namespaces |-> FALSE]
    /\ nsCur = NoNsCall
    /\ nsAllowedCall = <<>>
    /\ nsCallsLeft = MaxNsCalls
    /\ ProbeAtRest
    /\ RegAtRest
    /\ ReplicasAtRest

NextNs ==
    \/ NsVerifyCall
    \/ NsUpdateAllowedCall
    \/ NsVerify
    \/ NsGet
    \/ NsUpdate
    \/ NsExtChange

SpecNs == InitNs /\ [][NextNs]_vars

---------------------------------------------------------------------------
(* The probe on its own: one service, with or without a version token and  *)
(* with or without the labels of an earlier probe; the registry with or    *)
(* without the service's label keys.                                       *)

ProbeLabelMaps ==
    { <<>>,
      SetLabel(<<>>, TagKeyOf(ProbeSvc), TagOf(ProbeEpoch)),
      SetLabel(SetLabel(<<>>, TagKeyOf(ProbeSvc), TagOf(ProbeEpoch)),
               EchoKeyOf(ProbeSvc), TagOf(ProbeEpoch)) }

InitProbe ==
    /\ \E known \in BOOLEAN :
          /\ admCaBundle = [svcName \in Services |-> IF known THEN "ca1" ELSE ""]
          /\ svcLabelKeys = [svcName \in Services |->
                               IF known
                               THEN <<[TagKey |-> TagKeyOf(svcName),
                                       EchoKey |-> EchoKeyOf(svcName)]>>
                               ELSE <<>>]
    /\ \E labels \in ProbeLabelMaps, resourceVersion \in {<<>>, <<0>>} :
          /\ (resourceVersion = <<>> => labels = <<>>)
          /\ svcStore = [svcName \in Services |->
                        <<[ResourceVersion |-> resourceVersion, Labels |-> labels,
                           Type |-> ServiceTypeClusterIP, NodePort |-> <<>>]>>]
    /\ CfgAtRest
    /\ rvNext = 1
    /\ extLeft = 0
    /\ NsAtRest
    /\ now = ProbeEpoch
    /\ tPc = "idle"
    /\ tTag = ""
    /\ tObj = <<>>
    /\ tPolls = 0
    /\ tTick = FALSE
    /\ tSig = FALSE
    /\ tSigged = FALSE
    /\ tPollsAfterSig = 0
    /\ tGetErr = <<>>
    /\ tRet = <<>>
    /\ tRunsLeft = MaxTests
    /\ rPc = "idle"
    /\ rTagExpected = ""
    /\ rPolls = 0
    /\ rEchoed = FALSE
    /\ rConflicted = FALSE
    /\ rTick = FALSE
    /\ rSig = FALSE
    /\ rSigged = FALSE
    /\ rPollsAfterSig = 0
    /\ rObj = <<>>
    /\ rRunsLeft = MaxEchoes
    /\ echoSince = FALSE
    /\ RegAtRest
    /\ ReplicasAtRest

NextProbe ==
    \/ TestGet
    \/ TestWrite
    \/ TestSelect
    \/ TestPoll
    \/ TestReturn
    \/ EchoStart
    \/ EchoSelect
    \/ EchoGet
    \/ EchoWrite
    \/ EchoReturn
    \/ Tick
    \/ Signal

SpecProbe == InitProbe /\ [][NextProbe]_vars

---------------------------------------------------------------------------
(* The registry on its own: the maps are empty when the process starts and *)
(* its callers call SetCABundle, ResetCABundle and GetSvcLabelKeysForTest  *)
(* in any order.                                                           *)

RegCalled(fn, svcName, caBundle, reset, keys) ==
    <<[fn |-> fn, svcName |-> svcName, caBundle |-> caBundle, reset |-> reset, keys |-> keys]>>

RegOther == <<k8sVersion, storeVars, cfgVars, nsVars, probeVars>>

RegSet ==
    /\ regLeft > 0
    /\ regLeft' = regLeft - 1
    /\ \E svcName \in Services, caBundle \in Bundles :
          /\ SetCABundle(svcName, caBundle)
          /\ regCall' = RegCalled("SetCABundle", svcName, caBundle, FALSE, <<"", "">>)
    /\ UNCHANGED RegOther

RegReset ==
    /\ regLeft > 0
    /\ regLeft' = regLeft - 1
    /\ \E svcName \in Services, caBundle \in Bundles :
          /\ ResetCABundle(svcName, caBundle)
          /\ regCall' = RegCalled("ResetCABundle", svcName, caBundle,
                                  ResetCABundleResult(admCaBundle, svcName, caBundle),
                                  <<"", "">>)
    /\ UNCHANGED RegOther

RegKeysForTest ==
    /\ regLeft > 0
    /\ regLeft' = regLeft - 1
    /\ \E svcName \in Services :
          regCall' = RegCalled("GetSvcLabelKeysForTest", svcName, "", FALSE,
                               GetSvcLabelKeysForTest(svcLabelKeys, svcName))
    /\ UNCHANGED regVars
    /\ UNCHANGED RegOther

InitReg ==
    /\ admCaBundle = [svcName \in Services |-> ""]
    /\ svcLabelKeys = [svcName \in Services |-> <<>>]
    /\ svcStore = [svcName \in Services |-> <<>>]
    /\ CfgAtRest
    /\ rvNext = 1
    /\ extLeft = 0
    /\ NsAtRest
    /\ ProbeAtRest
    /\ regCall = <<>>
    /\ regLeft = MaxRegCalls
    /\ ReplicasAtRest

NextReg ==
    \/ RegSet
    \/ RegReset
    \/ RegKeysForTest

SpecReg == InitReg /\ [][NextReg]_vars

---------------------------------------------------------------------------
(* Properties of the reconciler.                                           *)

\* The read phase a caller would run now, the store serving it.
ReadNow == isK8sConfiguredAsExpected(k8sResInfo, GetResource(gate, ""), admCaBundle, k8sVersion)

Writes(c) == c["AddResource"] + c["UpdateResource"] + c["DeleteResource"]

\* A step of the read phase of an attempt (other writers leave pc and retry alone).
ReadStep == pc = "read" /\ (pc' # "read" \/ retry' # retry)

\* A step of the write phase of an attempt.
ApplyStep == pc = "apply" /\ pc' # "apply"

(* C1, as stated, for the configurations the controller builds: once       *)
(* ConfigK8sAdmissionControl(S, enabled) has returned, the read phase run  *)
(* on the store as it is reports found and matched.                        *)
C1_ConvergesOnReturn ==
    (pc = "done" /\ ctrlState.Enable /\ ctrlState.Uri # "" /\ WellFormed(k8sResInfo))
        => (ReadNow.found /\ ReadNow.matched)

(* C1, amended: once ConfigK8sAdmissionControl(S, enabled) has returned    *)
(* with no error, for a well-formed S and a control state with a URI, the  *)
(* read phase run on the store as it is reports found and matched.         *)
C1_ConvergesOnSuccess ==
    (/\ pc = "done"
     /\ ctrlState.Enable
     /\ ctrlState.Uri # ""
     /\ WellFormed(k8sResInfo)
     /\ ret[1].err = "")
        => (ReadNow.found /\ ReadNow.matched)

\* An enabled reconcile of a url-mode configuration has updated a drifted resource.
C1_Witness ==
    /\ pc = "done"
    /\ ctrlState.Enable
    /\ WellFormed(k8sResInfo)
    /\ HasUrlMode(k8sResInfo)
    /\ ret = Returned(FALSE, "")
    /\ calls["UpdateResource"] = 1

(* C2: a create or update attempt with an empty bundle for the service of  *)
(* any webhook fails with "empty caBundle", issues no store call and       *)
(* leaves the store as it is.                                              *)
C2_EmptyBundleNoWrite ==
    [][(/\ ApplyStep
        /\ op \in {K8sResOpCreate, K8sResOpUpdate}
        /\ \E i \in 1..Len(k8sResInfo.WebhooksInfo) :
              BundleOf(admCaBundle, k8sResInfo.WebhooksInfo[i].ClientConfig.ServiceName) = "")
            => (/\ err' = ErrEmptyCaBundle
                /\ gate' = gate
                /\ rvNext' = rvNext
                /\ calls' = calls)]_vars

\* An update attempt has failed on the bundle of the second webhook alone.
C2_Witness ==
    /\ pc \in {"read", "done"}
    /\ retry >= 1
    /\ op = K8sResOpUpdate
    /\ err = ErrEmptyCaBundle
    /\ Len(k8sResInfo.WebhooksInfo) = 2
    /\ BundleOf(admCaBundle, k8sResInfo.WebhooksInfo[1].ClientConfig.ServiceName) # ""

(* C3: a disabled reconcile that finds no resource registered returns      *)
(* skipped with no error and issues no store write: the store is left as   *)
(* it is, and when nothing was registered at the first read the whole      *)
(* invocation has issued no write.                                         *)
C3_DisabledAbsentNoOp ==
    [][(ReadStep /\ ~ctrlState.Enable /\ gate = <<>>)
            => (/\ pc' = "done"
                /\ ret' = Returned(TRUE, "")
                /\ gate' = gate
                /\ rvNext' = rvNext
                /\ Writes(calls') = Writes(calls)
                /\ (retry = 0 => Writes(calls') = 0))]_vars

\* A disabled reconcile of a supported name has returned from its first read of an empty store.
C3_Witness ==
    /\ pc = "done"
    /\ ~ctrlState.Enable
    /\ ctrlState.Uri # ""
    /\ gate = <<>>
    /\ retry = 0
    /\ calls["GetResource"] = 1
    /\ getErr = <<ErrNotFound>>
    /\ ret = Returned(TRUE, "")

\* The truth table of C9 over (registered, enabled, matched).
C9_Table(registered, enabled, matched) ==
    IF registered /\ ~enabled THEN K8sResOpDelete
    ELSE IF enabled /\ ~registered THEN K8sResOpCreate
    ELSE IF enabled /\ registered /\ ~matched THEN K8sResOpUpdate
    ELSE "none"

(* C9: every attempt selects its action by the truth table over            *)
(* (registered, enabled, matched): no action returns skipped, any other    *)
(* action is the one applied; a disabled reconcile never issues a create   *)
(* or update and an enabled one never issues a delete.                     *)
C9_ActionSelection ==
    /\ [][ReadStep =>
            LET t == C9_Table(k8sConfigured', ctrlState.Enable, matchedCfg')
            IN  IF t = "none"
                THEN pc' = "done" /\ ret' = Returned(TRUE, "") /\ Writes(calls') = Writes(calls)
                ELSE pc' = "apply" /\ op' = t]_vars
    /\ [][ApplyStep =>
            /\ Writes(calls') <= Writes(calls) + 1
            /\ (op = K8sResOpCreate => calls'["UpdateResource"] = calls["UpdateResource"]
                                        /\ calls'["DeleteResource"] = calls["DeleteResource"])
            /\ (op = K8sResOpUpdate => calls'["AddResource"] = calls["AddResource"]
                                        /\ calls'["DeleteResource"] = calls["DeleteResource"])
            /\ (op = K8sResOpDelete => calls'["AddResource"] = calls["AddResource"]
                                        /\ calls'["UpdateResource"] = calls["UpdateResource"])]_vars
    /\ [](ctrlState.Enable => calls["DeleteResource"] = 0)
    /\ [](~ctrlState.Enable => calls["AddResource"] = 0 /\ calls["UpdateResource"] = 0)

\* An enabled reconcile has read a registered resource that does not match and is about to update it.
C9_Witness ==
    /\ pc = "apply"
    /\ ctrlState.Enable
    /\ k8sConfigured
    /\ ~matchedCfg
    /\ op = K8sResOpUpdate

(* C10: the reconcile makes at most 3 attempts; each attempt reads the     *)
(* gate resource anew before it applies, the version token it applies with *)
(* being the one of the resource as stored at that read; the first apply   *)
(* that succeeds returns (skipped=false, no error); the third failed       *)
(* attempt returns the error of that attempt.                              *)
C10_BoundedRetry ==
    /\ [](/\ retry <= 3
          /\ calls["GetResource"] <= 3
          /\ Writes(calls) <= 3
          /\ (pc \in {"read", "apply"} => retry < 3)
          /\ (pc = "apply" /\ SupportedName(k8sResInfo.Name)
                => calls["GetResource"] = retry + 1))
    /\ [][ReadStep =>
            /\ (SupportedName(k8sResInfo.Name)
                    => calls'["GetResource"] = calls["GetResource"] + 1)
            /\ (verRead' = 0 \/ (gate # <<>> /\ verRead' = gate[1].ResourceVersion))
            /\ (k8sConfigured' /\ getErr' = <<"">> => gate # <<>>)]_vars
    /\ [][ApplyStep =>
            IF err' = ""
            THEN pc' = "done" /\ ret' = Returned(FALSE, "") /\ retry' = retry
            ELSE /\ retry' = retry + 1
                 /\ IF retry = 2
                    THEN pc' = "done" /\ ret' = Returned(TRUE, err')
                    ELSE pc' = "read" /\ ret' = <<>>]_vars

\* The third attempt has failed on a version conflict and the reconcile has returned it.
C10_Witness ==
    /\ pc = "done"
    /\ retry = 3
    /\ calls["GetResource"] = 3
    /\ ret = Returned(TRUE, ErrConflict)

---------------------------------------------------------------------------
(* Properties of the read phase alone (SpecRead).                          *)

\* The read phase has run on a stored resource of one of the two generations.
ReadOfKnownGen ==
    /\ pc = "readDone"
    /\ getErr = <<"">>
    /\ gate[1].gen \in {GenV1, GenV1Beta1}

\* The resource as the write phase of server version v builds it, with bundle b.
AsWritten(v, b) == BuildWebhooks(k8sResInfo, ConstBundles(b), v)

\* The side-effect value C7 states for the CRD webhook.
C7_Claimed(ver, gen) ==
    IF ver[1] = 1 /\ ver[2] >= 22 THEN SideEffectNoneOnDryRun
    ELSE IF gen = GenV1 THEN SideEffectNoneOnDryRun
    ELSE SideEffectSome

(* C7: for the CRD configuration the read phase accepts a webhook only     *)
(* with the side-effect value of the table ((1,22): NoneOnDryRun; (1,15)   *)
(* and new generation: NoneOnDryRun; (1,15) and legacy generation: Some),  *)
(* accepts the resource that carries it, and on server (1,10) accepts any  *)
(* or no value.                                                            *)
C7_SideEffectTable ==
    (/\ ReadOfKnownGen
     /\ k8sResInfo.Name = NvCrdValidatingName
     /\ WellFormed(k8sResInfo)
     /\ Len(gate[1].Webhooks) = 1)
        => LET claimed == C7_Claimed(k8sVersion, gate[1].gen)
               side == gate[1].Webhooks[1].SideEffects
               tamper == IF claimed = SideEffectSome THEN "sideSome" ELSE "sideDry"
               carriesClaimed ==
                   \/ /\ gate[1].gen = GenV1
                      /\ gate[1].Webhooks = TamperWebhooks(AsWritten(<<1, 22>>, "ca1"), tamper)
                   \/ /\ gate[1].gen = GenV1Beta1
                      /\ gate[1].Webhooks = TamperWebhooks(AsWritten(k8sVersion, "ca1"), tamper)
               carriesAny ==
                   /\ gate[1].gen = GenV1Beta1
                   /\ \E t \in SideTampers :
                         gate[1].Webhooks = TamperWebhooks(AsWritten(k8sVersion, "ca1"), t)
           IN  /\ ((k8sVersion[2] > 11 /\ matchedCfg) => (side = <<claimed>>))
               /\ ((k8sVersion[2] > 11 /\ carriesClaimed) => matchedCfg)
               /\ ((k8sVersion = <<1, 10>> /\ carriesAny) => matchedCfg)

(* On server (1,15) the read phase has accepted a CRD resource of the new  *)
(* generation whose side-effect value is Some.                             *)
C7_Witness ==
    /\ ReadOfKnownGen
    /\ k8sResInfo.Name = NvCrdValidatingName
    /\ WellFormed(k8sResInfo)
    /\ k8sVersion = <<1, 15>>
    /\ gate[1].gen = GenV1
    /\ gate[1].Webhooks[1].SideEffects = <<SideEffectSome>>
    /\ matchedCfg

(* C8: when the stored resource, of either generation, has another number  *)
(* of webhooks than the desired configuration, the read phase returns      *)
(* found, not matched, the version token of the resource and no error,     *)
(* whatever the webhooks are.                                              *)
C8_CountMismatch ==
    (ReadOfKnownGen /\ Len(gate[1].Webhooks) # Len(k8sResInfo.WebhooksInfo))
        => (/\ k8sConfigured
            /\ ~matchedCfg
            /\ verRead = gate[1].ResourceVersion
            /\ err = "")

(* The read phase has returned not matched for a resource with one webhook *)
(* less than desired, every webhook of which passes the per-webhook check. *)
C8_Witness ==
    /\ ReadOfKnownGen
    /\ Len(gate[1].Webhooks) = 1
    /\ Len(k8sResInfo.WebhooksInfo) = 2
    /\ AllWebhooksMatched(gate[1].Webhooks, k8sResInfo, gate[1].gen = GenV1,
                          admCaBundle, k8sVersion)
    /\ k8sConfigured
    /\ ~matchedCfg
    /\ verRead = 1

---------------------------------------------------------------------------
(* Properties of the namespace label enforcer (SpecNs).                    *)

(* VerifyK8sNs is running, or has run, on a namespace for the second time  *)
(* in succession: with the same admCtrlEnabled and allowed sets as the     *)
(* call before it on that namespace, with the labels the namespace has in  *)
(* the store, and with no other writer changing the namespace since that   *)
(* call returned.                                                          *)
SecondInSuccession ==
    /\ nsCur.prev # <<>>
    /\ nsCur.prev[1].enabled = nsCur.enabled
    /\ nsCur.fresh
    /\ ~nsCur.extBefore
    /\ ~nsCur.extSeen

(* C4, as stated: the second of two applications of VerifyK8sNs in         *)
(* succession issues no UpdateResource.                                    *)
C4_SecondIssuesNoWrite ==
    SecondInSuccession => nsCur.updates = 0

(* C4, amended: when the first application did not fail on the store and   *)
(* either was given the labels the namespace had or went on to correct     *)
(* the namespace, the second application issues no UpdateResource; it      *)
(* makes no store call at all.                                             *)
C4_Idempotent ==
    (/\ SecondInSuccession
     /\ ~nsCur.prev[1].failed
     /\ (nsCur.prev[1].fresh \/ nsCur.prev[1].entered))
        => (nsCur.updates = 0 /\ ~nsCur.entered)

(* A second application has returned, policy enabled, after a first one    *)
(* that wrote the namespace.                                               *)
C4_Witness ==
    /\ SecondInSuccession
    /\ nsCur.done
    /\ nsCur.enabled
    /\ nsCur.prev[1].updated
    /\ ~nsCur.prev[1].failed
    /\ nsCur.updates = 0

---------------------------------------------------------------------------
(* Properties of the connectivity probe (SpecProbe).                       *)

\* The step that ends a poll of the initiator.
TestPollStep == tPc = "poll" /\ tPc' # "poll"

\* The poll now ending read the service and the service carries an echo label equal to
\* the initiator's tag.
EchoShown ==
    /\ tGetErr' = <<"">>
    /\ svcStore[ProbeSvc] # <<>>
    /\ LabelOf(svcStore[ProbeSvc][1].Labels, EchoKeyOf(ProbeSvc)) = tTag

\* C5: after TestAdmWebhookConnection has written its tag, every poll is counted; the
\* first poll (the k-th, k <= 10) at which the echo label equal to the tag is present
\* returns TestSucceeded, a poll that does not find it goes on to the next poll or, when
\* it is the 10th, returns TestFailed, so TestFailed comes after exactly 10 polls; and
\* once an outcome is returned no later poll is performed.
C5_PollBudget ==
    [][/\ TestPollStep =>
            /\ tPolls' = tPolls + 1
            /\ tPolls' <= 10
            /\ IF EchoShown
               THEN tPc' = "done" /\ tRet' = TestReturned(TestSucceeded, "")
               ELSE IF tPolls' = 10
               THEN tPc' = "done" /\ tRet' = TestReturned(TestFailed, "")
               ELSE tPc' = "select" /\ tRet' = <<>>
       /\ (tRet' # <<>> /\ tRet'[1].outcome = TestFailed /\ tPolls' > 0) => tPolls' = 10
       /\ tRet # <<>> => tPolls' = tPolls]_vars

\* The responder echoed and the initiator's third poll returned success.
C5_Witness ==
    /\ tPc = "done"
    /\ tRet = TestReturned(TestSucceeded, "")
    /\ tPolls = 3
    /\ rEchoed
    /\ ~tSigged

\* C6: after a shutdown signal reaches a role in its poll loop, the role begins no more
\* than one further poll and does not run its poll budget out: the initiator does not
\* return TestFailed.
C6_SignalEndsLoop ==
    /\ tPollsAfterSig <= 1
    /\ rPollsAfterSig <= 1
    /\ (tSigged /\ tRet # <<>>) => tRet[1].outcome # TestFailed

\* A signal reached the initiator in its loop before its second poll and it aborted.
C6_Witness ==
    /\ tSigged
    /\ tPolls = 1
    /\ tRet = TestReturned(TestAborted, "")

---------------------------------------------------------------------------
(* Properties of the reconciler, continued (Spec).                         *)

\* The store write of the attempt now ending its write phase.
IssuedNow(verb) == ApplyStep /\ issued' # <<>> /\ issued'[1].verb = verb

\* The gate resource is not the one whose version token the attempt holds.
GateChangedSinceRead == gate = <<>> \/ gate[1].ResourceVersion # verRead

\* C11 (gate resource): an attempt that selects an update has read the object and holds
\* the version token of the object it read; the UpdateResource it issues carries that
\* token and an AddResource carries none; an update issued after another writer changed
\* or removed the object fails and leaves the store as it is.
C11_VersionToken ==
    [][/\ ((ReadStep /\ op' = K8sResOpUpdate)
              => (getErr' = <<"">> /\ gate # <<>> /\ verRead' = gate[1].ResourceVersion))
       /\ (IssuedNow("UpdateResource") => issued'[1].ResourceVersion = <<verRead>>)
       /\ (IssuedNow("AddResource") => issued'[1].ResourceVersion = <<>>)
       /\ ((IssuedNow("UpdateResource") /\ GateChangedSinceRead)
              => (gate' = gate /\ err' \in {ErrConflict, ErrNotFound, ErrStore}))]_vars

\* An update was issued with no version token of the object read: the read phase had
\* answered a type-assertion error.
C11_Witness ==
    /\ issued # <<>>
    /\ issued[1].verb = "UpdateResource"
    /\ issued[1].ResourceVersion = <<0>>
    /\ gate # <<>>
    /\ gate[1].gen = GenOther

---------------------------------------------------------------------------
(* Properties of the registry (SpecReg).                                   *)

\* The step of a call of the registry function fn.
RegStep(fn) == regLeft' = regLeft - 1 /\ regCall'[1].fn = fn

\* What ResetCABundle keeps whatever it is given: a true result exactly when the stored
\* value changed, the registry as it was on a false result, the label keys untouched,
\* and nothing stored but the bundle given, for the service given.
ResetKeeps ==
    /\ regCall'[1].reset <=> admCaBundle' # admCaBundle
    /\ ~regCall'[1].reset => admCaBundle' = admCaBundle
    /\ svcLabelKeys' = svcLabelKeys
    /\ admCaBundle' # admCaBundle
          => admCaBundle' = [admCaBundle EXCEPT ![regCall'[1].svcName] = regCall'[1].caBundle]

\* C12 as stated: ResetCABundle stores the bundle if and only if it differs from the
\* value stored for the service, returns true exactly when the stored value changed,
\* leaves the registry unchanged when it returns false and never touches the label keys.
C12_StoresIffDiffers ==
    [][RegStep("ResetCABundle") =>
          /\ ResetKeeps
          /\ (admCaBundle' # admCaBundle)
                <=> (regCall'[1].caBundle # admCaBundle[regCall'[1].svcName])]_vars

\* C12, amended: ResetCABundle stores the bundle if and only if it is not empty and
\* differs from the value stored for the service; the rest as stated.
C12_StoresIffNonEmptyAndDiffers ==
    [][RegStep("ResetCABundle") =>
          /\ ResetKeeps
          /\ (admCaBundle' # admCaBundle)
                <=> (/\ regCall'[1].caBundle # ""
                     /\ regCall'[1].caBundle # admCaBundle[regCall'[1].svcName])]_vars

\* ResetCABundle has replaced a bundle by another one and answered true, the label keys
\* of the service being there.
C12_Witness ==
    /\ regCall # <<>>
    /\ regCall[1].fn = "ResetCABundle"
    /\ regCall[1].reset
    /\ regCall[1].caBundle = "ca2"
    /\ admCaBundle[regCall[1].svcName] = "ca2"
    /\ svcLabelKeys[regCall[1].svcName] # <<>>

\* The pair of label keys derived from the name of a service alone.
PairOfName(svcName) == [TagKey |-> "tag-" \o svcName, EchoKey |-> "echo-" \o svcName]

\* C13: through any sequence of SetCABundle and ResetCABundle calls, a label-key pair
\* that exists for a service never changes and is the pair derived from the service
\* name alone, whatever the bundle; GetSvcLabelKeysForTest answers that pair to every
\* caller, so an initiator and a responder observe equal keys.
C13_KeysStable ==
    [][/\ \A svcName \in Services :
             /\ svcLabelKeys[svcName] # <<>> => svcLabelKeys'[svcName] = svcLabelKeys[svcName]
             /\ svcLabelKeys'[svcName] # <<>> => svcLabelKeys'[svcName] = <<PairOfName(svcName)>>
       /\ (RegStep("GetSvcLabelKeysForTest") /\ svcLabelKeys[regCall'[1].svcName] # <<>>)
             => regCall'[1].keys = <<PairOfName(regCall'[1].svcName).TagKey,
                                     PairOfName(regCall'[1].svcName).EchoKey>>]_vars

\* The keys of a service are observed after its bundle was set and then replaced.
C13_Witness ==
    /\ regCall # <<>>
    /\ regCall[1].fn = "GetSvcLabelKeysForTest"
    /\ regCall[1].keys # <<"", "">>
    /\ admCaBundle[regCall[1].svcName] = "ca2"
    /\ regLeft <= MaxRegCalls - 3

---------------------------------------------------------------------------
(* Properties of the enforcer, continued (SpecNs).                         *)

\* VerifyK8sNs is at work on a namespace with the labelKeys it computed.
NsAtWork == nsPc \in {"get", "update"}

\* The namespace of the running call is in the exact allowed set or matches a pattern of
\* the wildcard allowed set.
NsIsAllowed ==
    \/ nsCur.name \in allowedNamespaces
    \/ \E pattern \in allowedNamespacesWild : EqualMatch(pattern, nsCur.name)

\* C14: the desired state VerifyK8sNs computes: the skip key must exist iff the policy is
\* enabled and the namespace is allowed (exactly or by a pattern), else it must not exist;
\* the status key must exist iff the policy is enabled and the namespace is the gate's
\* own, else it must not exist; the control-plane key must not exist when the policy is
\* enabled, the selector of that key is not-exists-based and the namespace is not in the
\* default allowed set, and is don't-care otherwise.
C14_DesiredState ==
    NsAtWork =>
        /\ nsLabelKeys[NsSelectorKeySkipNV] =
              IF nsCur.enabled /\ NsIsAllowed THEN ShouldExist ELSE ShouldNotExist
        /\ nsLabelKeys[NsSelectorKeyStatusNV] =
              IF nsCur.enabled /\ nsCur.name = NvAdmSvcNamespace
              THEN ShouldExist ELSE ShouldNotExist
        /\ nsLabelKeys[NsSelectorKeyCtrlPlane] =
              IF /\ nsCur.enabled
                 /\ ctrlPlaneOpInWhExpr = NsSelectorOpNotExist
                 /\ nsCur.name \notin defAllowedNamespaces
              THEN ShouldNotExist ELSE CouldExist

\* The policy is enabled and a namespace allowed by a pattern only, and in the default
\* allowed set, is being corrected.
C14_Witness ==
    /\ NsAtWork
    /\ nsCur.enabled
    /\ nsCur.name = "apps"
    /\ allowedNamespaces = {}
    /\ allowedNamespacesWild = {"app*"}
    /\ defAllowedNamespaces = {"apps"}
    /\ ctrlPlaneOpInWhExpr = NsSelectorOpNotExist
    /\ nsLabelKeys[NsSelectorKeySkipNV] = ShouldExist
    /\ nsLabelKeys[NsSelectorKeyCtrlPlane] = CouldExist


\* Some key that must exist is missing from the labels, or one that must not exist is
\* among them.
ShowsMismatch(desired, labels) ==
    \E k \in NsLabelKeys :
        /\ desired[k] # CouldExist
        /\ (desired[k] = ShouldExist) # (k \in DOMAIN labels)

\* The desired state of the namespace a call of VerifyK8sNs is given.
DesiredOf(admCtrlEnabled, nsName) ==
    DesiredLabelKeys(admCtrlEnabled, nsName, allowedNamespaces, allowedNamespacesWild,
                     defAllowedNamespaces, ctrlPlaneOpInWhExpr)

\* The steps of one call: VerifyK8sNs looks at its labels argument, workSingleK8sNsLabels
\* reads the namespace, it issues UpdateResource, the call returns.
NsDecides == nsPc = "verify" /\ (nsPc' = "get" \/ nsQueue' # nsQueue)
NsReads == nsPc = "get" /\ nsPc' # "get"
NsWrites == nsPc = "update" /\ nsPc' # "update"
NsReturns == nsPc # "idle" /\ nsQueue' # nsQueue

\* The labels after a write that succeeded, against the labels before it: with
\* sharedValueAlways every must-exist key has the shared value, without it a key that
\* was there keeps its value.
WrittenAsDesired(desired, before, after, sharedValueAlways) ==
    \A k \in DOMAIN before \cup DOMAIN after \cup NsLabelKeys :
        IF k \in NsLabelKeys /\ desired[k] = ShouldExist
        THEN /\ k \in DOMAIN after
             /\ after[k] = IF k \in DOMAIN before /\ ~sharedValueAlways
                           THEN before[k] ELSE nsSelectorValue
        ELSE IF k \in NsLabelKeys /\ desired[k] = ShouldNotExist
        THEN k \notin DOMAIN after
        ELSE /\ (k \in DOMAIN after <=> k \in DOMAIN before)
             /\ (k \in DOMAIN before => after[k] = before[k])

\* C15, as stated: a call of VerifyK8sNs issues at most one UpdateResource, one exactly
\* when some key that is not don't-care disagrees with the labels the namespace has (no
\* other writer acting during the call); after a successful write every must-exist key
\* is present with the shared value, every must-not-exist key is absent and the other
\* labels are as before.
C15_OneWriteIffStoreDisagrees ==
    [][NsReturns =>
          LET desired == DesiredOf(nsCur'.enabled, nsCur'.name)
              before == nsStore[nsCur'.name].Labels
              after == nsStore'[nsCur'.name].Labels
          IN  /\ nsCur'.updates <= 1
              /\ (~nsCur'.extSeen => (nsCur'.updates = 1 <=> ShowsMismatch(desired, before)))
              /\ ((nsCur'.updates = 1 /\ ~nsCur'.failed)
                     => WrittenAsDesired(desired, before, after, TRUE))]_vars

\* C15, amended: a call of VerifyK8sNs issues at most one UpdateResource, one exactly
\* when its labels argument shows a key that disagrees and then, GetResource succeeding,
\* the labels read show one too; after a successful write every must-exist key is
\* present, with the shared value when the write added it and with the value read
\* otherwise, every must-not-exist key is absent and the other labels are as read.
C15_OneWriteIffShownAndRead ==
    [][/\ (NsReturns => nsCur'.updates = IF NsWrites THEN 1 ELSE 0)
       /\ (NsDecides =>
             (nsPc' = "get" <=> ShowsMismatch(DesiredOf(nsEnabled, Head(nsQueue).Name),
                                              Head(nsQueue).Labels)))
       /\ (NsReads =>
             (nsPc' = "update" <=>
                 (~nsCur'.failed
                    /\ ShowsMismatch(DesiredOf(nsCur.enabled, nsCur.name),
                                     nsStore[nsCur.name].Labels))))
       /\ ((NsWrites /\ ~nsCur'.failed) =>
             WrittenAsDesired(DesiredOf(nsCur.enabled, nsCur.name),
                              nsStore[nsCur.name].Labels, nsStore'[nsCur.name].Labels,
                              FALSE))]_vars

\* A call, policy enabled, has written the gate's own namespace: the skip key removed,
\* the status key added with the shared value, the label of another owner kept.
C15_Witness ==
    /\ nsCur.done
    /\ nsCur.name = NvAdmSvcNamespace
    /\ nsCur.enabled
    /\ nsCur.updates = 1
    /\ ~nsCur.failed
    /\ DOMAIN nsStore[NvAdmSvcNamespace].Labels = {NsSelectorKeyStatusNV, OtherLabelKey}
    /\ nsStore[NvAdmSvcNamespace].Labels[NsSelectorKeyStatusNV] = nsSelectorValue
    /\ nsStore[NvAdmSvcNamespace].Labels[OtherLabelKey] = "x"


\* C16, as stated: whatever labels argument VerifyK8sNs is given, when the call returns
\* without a store error the labels of the namespace in the store agree with the desired
\* state on every key that is not don't-care.
C16_StoreAgreesOnReturn ==
    [][(NsReturns /\ ~nsCur'.failed) =>
          ~ShowsMismatch(DesiredOf(nsCur'.enabled, nsCur'.name),
                         nsStore'[nsCur'.name].Labels)]_vars

\* C16, amended: the same for a labels argument that shows a key to correct or that is
\* equal to the labels of the namespace in the store.
C16_StoreAgreesWhenShownOrFresh ==
    [][(NsReturns /\ ~nsCur'.failed /\ (nsCur'.entered \/ nsCur'.fresh)) =>
          ~ShowsMismatch(DesiredOf(nsCur'.enabled, nsCur'.name),
                         nsStore'[nsCur'.name].Labels)]_vars

\* A call given labels that are not those of the store has read the namespace and
\* written it, and the store agrees with the desired state.
C16_Witness ==
    /\ nsCur.done
    /\ ~nsCur.fresh
    /\ nsCur.entered
    /\ ~nsCur.failed
    /\ nsCur.updates = 1
    /\ nsCur.extBefore
    /\ ~ShowsMismatch(DesiredOf(nsCur.enabled, nsCur.name), nsStore[nsCur.name].Labels)


\* UpdateAllowedK8sNs is called.
NsUpdateAllowedStep == nsAllowedCall' # <<>> /\ nsCallsLeft' = nsCallsLeft - 1

\* C17: UpdateAllowedK8sNs leaves the cached exact and wildcard sets equal to the new
\* sets on every replica, and they are so when it returns; a replica that is not the
\* leader makes no store call: it lists nothing, verifies no namespace and changes no
\* namespace; a leader lists the namespaces once, and each namespace listed is verified,
\* in turn and against the new sets, before the call returns.
C17_LeaderGating ==
    [][/\ (NsUpdateAllowedStep =>
             LET call == nsAllowedCall'[1]
             IN  /\ allowedNamespaces' = call.newAllowedNS
                 /\ allowedNamespacesWild' = call.newAllowedNsWild
                 /\ (~call.isLead =>
                       /\ call.listCalls = 0
                       /\ nsQueue' = <<>>
                       /\ nsPc' = "idle"
                       /\ nsStore' = nsStore)
                 /\ (call.isLead =>
                       /\ call.listCalls = 1
                       /\ \/ nsQueue' = <<>>
                          \/ nsQueue' = [i \in 1..Len(NsScanOrder) |->
                                           [Name |-> NsScanOrder[i],
                                            Labels |-> nsStore[NsScanOrder[i]].Labels]]))
       /\ ((nsAllowedCall # <<>> /\ nsPc # "idle") =>
             /\ nsAllowedCall[1].isLead
             /\ nsQueue # <<>>
             /\ allowedNamespaces = nsAllowedCall[1].newAllowedNS
             /\ allowedNamespacesWild = nsAllowedCall[1].newAllowedNsWild
             /\ nsAllowedCall' = nsAllowedCall
             /\ (NsDecides => nsCur'.name = Head(nsQueue).Name)
             /\ (NsReturns => nsQueue' = Tail(nsQueue) /\ (nsPc' = "idle" <=> nsQueue' = <<>>)))
       /\ ((nsAllowedCall' # <<>> /\ nsPc' = "idle") =>
             /\ allowedNamespaces' = nsAllowedCall'[1].newAllowedNS
             /\ allowedNamespacesWild' = nsAllowedCall'[1].newAllowedNsWild
             /\ nsQueue' = <<>>)]_vars

\* A leader's UpdateAllowedK8sNs with "apps" newly allowed has returned: both namespaces
\* were verified and "apps" was given the skip label.
C17_Witness ==
    /\ nsAllowedCall # <<>>
    /\ nsAllowedCall[1].isLead
    /\ nsAllowedCall[1].newAllowedNS = {"apps"}
    /\ nsPc = "idle"
    /\ nsHist[NvAdmSvcNamespace] # <<>>
    /\ nsHist["apps"] # <<>>
    /\ nsHist["apps"][1].updated
    /\ ~nsHist["apps"][1].failed
    /\ NsSelectorKeySkipNV \in DOMAIN nsStore["apps"].Labels
    /\ nsStore["apps"].Labels[NsSelectorKeySkipNV] = nsSelectorValue


---------------------------------------------------------------------------
(* Properties of the reconciler's error handling (Spec).                   *)

\* C18: when the apply step fails because a bundle is missing, or the operation is
\* unsupported, the reconcile stops there and reports that error: no further read or
\* apply attempt follows.
C18_StructuralErrorStops ==
    [][(ApplyStep /\ err' \in {ErrEmptyCaBundle, ErrUnsupportedOp})
           => (pc' = "done" /\ ret' # <<>> /\ ret'[1].err = err')]_vars

\* An enabled reconcile with no bundle registered has failed three create attempts on
\* the missing bundle, each after a read of its own, before it reported the error.
C18_Witness ==
    /\ pc = "done"
    /\ ctrlState.Enable
    /\ op = K8sResOpCreate
    /\ retry = MaxRetry
    /\ calls["GetResource"] = MaxRetry
    /\ Writes(calls) = 0
    /\ ret = Returned(TRUE, ErrEmptyCaBundle)

\* C19: an attempt whose read phase fails with an error other than not-found issues no
\* add, update or delete, the loop goes on to the next attempt, and after the third such
\* attempt the error is reported, whether the policy is enabled or disabled.
C19_ReadErrorRetried ==
    [][(ReadStep /\ err' \notin {"", ErrNotFound})
           => (/\ pc' # "apply"
               /\ retry' = retry + 1
               /\ (retry' < MaxRetry => pc' = "read")
               /\ (retry' = MaxRetry => (pc' = "done" /\ ret' # <<>> /\ ret'[1].err = err')))]_vars

\* An enabled reconcile whose read was refused goes on to create the resource.
C19_Witness ==
    /\ pc = "apply"
    /\ ctrlState.Enable
    /\ getErr = <<ErrForbidden>>
    /\ err = ErrForbidden
    /\ ~k8sConfigured
    /\ op = K8sResOpCreate


---------------------------------------------------------------------------
(* Properties of the probe's writes (SpecProbe).                           *)

\* The UpdateResource of a role is issued and answered.
TestWriteStep == tPc = "write" /\ tPc' # "write"
EchoWriteStep == rPc = "write" /\ rPc' # "write"

\* C20, for the two probe roles: a role whose label write fails with a conflict issues
\* no further write in that invocation: the initiator returns its failure at the write
\* with the conflict, and the responder, after a conflict, issues no echo write again.
C20_NoWriteAfterConflict ==
    [][/\ ((TestWriteStep /\ tRet' # <<>> /\ tRet'[1].err = ErrConflict)
              => (tPc' = "done" /\ tRet' = TestReturned(TestFailedAtWrite, ErrConflict)))
       /\ (EchoWriteStep => ~rConflicted)]_vars

\* The responder's echo write failed with a conflict, and a later echo write of the
\* same invocation succeeded.
C20_Witness ==
    /\ rPc = "done"
    /\ rConflicted
    /\ rEchoed
    /\ rPolls >= 2


\* C21: the initiator returns the exhausted outcome only after it has written its tag
\* and used its whole poll budget; a fetched object without a version token makes it
\* wait and is not answered with the exhausted outcome.
C21_ExhaustedOnlyAfterBudget ==
    (tRet # <<>> /\ tRet[1].outcome = TestFailed) => tPolls = TestPolls

\* The initiator has fetched a Service without a version token and returned the
\* exhausted outcome at once: no tag written, no poll made.
C21_Witness ==
    /\ tPc = "done"
    /\ tRet = TestReturned(TestFailed, "")
    /\ tPolls = 0
    /\ tTag = ""
    /\ svcStore[ProbeSvc][1].ResourceVersion = <<>>
    /\ KeysOf(svcLabelKeys, ProbeSvc) # <<>>


\* C22: one invocation of the responder makes at most 4 polls; it writes the echo label
\* only when the tag it has just read is the expected one, and writes that tag; after
\* its first successful echo write it reads and writes no more; and no echo write is
\* issued in a poll begun after a shutdown signal.
C22_ResponderProtocol ==
    [][/\ rPolls' <= EchoPolls
       /\ (EchoWriteStep =>
             /\ LabelOf(rObj[1].Labels, TagKeyOf(ProbeSvc)) = rTagExpected
             /\ LabelOf(rObj[1].Labels, EchoKeyOf(ProbeSvc)) = rTagExpected
             /\ rPollsAfterSig = 0)
       /\ (rEchoed' => rPc' \in {"done", "idle"})]_vars

\* The responder has written the echo label in a poll it began after the signal.
C22_Witness ==
    /\ rPc = "done"
    /\ rSigged
    /\ rPollsAfterSig >= 1
    /\ rEchoed
    /\ LabelOf(svcStore[ProbeSvc][1].Labels, EchoKeyOf(ProbeSvc)) = rTagExpected


---------------------------------------------------------------------------
(* Properties of UnregK8sAdmissionControl (SpecUnreg).                     *)

UnregStep == pc = "idle" /\ pc' = "unregDone"

\* C23: the delete names the resource and carries no version token; on a name under
\* which no resource is registered it leaves the store as it is and the absence is not
\* an error: the caller gets no error unless the store call itself failed.
C23_DeleteAbsentNoError ==
    [][UnregStep =>
          /\ issued' = <<[verb |-> "DeleteResource", ResourceVersion |-> <<>>]>>
          /\ ret'[1].err = err'
          /\ (StoredAs(ret'[1].name) = <<>> =>
                /\ gate' = gate
                /\ rvNext' = rvNext
                /\ err' \in {"", ErrStore})]_vars

\* The unregistration of a name under which nothing is registered has returned no error,
\* another resource being registered.
C23_Witness ==
    /\ pc = "unregDone"
    /\ ret = <<[name |-> NvCrdValidatingName, err |-> ""]>>
    /\ k8sResInfo.Name = NvAdmValidatingName
    /\ gate # <<>>
    /\ issued = <<[verb |-> "DeleteResource", ResourceVersion |-> <<>>]>>


---------------------------------------------------------------------------
(* Properties of the read phase, continued (SpecRead).                     *)

\* The desired webhook j has a webhook of its name in the stored resource that passes
\* the per-webhook checks.
DesiredHasMatch(j) ==
    \E i \in 1..Len(gate[1].Webhooks) :
        /\ gate[1].Webhooks[i].Name = <<k8sResInfo.WebhooksInfo[j].Name>>
        /\ WebhookMatched(NormalizeWebhook(gate[1].Webhooks[i], gate[1].gen = GenV1),
                          k8sResInfo.WebhooksInfo[j], k8sResInfo.Name, gate[1].gen = GenV1,
                          admCaBundle, k8sVersion)

\* C24: the read phase reports matched only if every webhook of the desired
\* configuration has a webhook of the same name in the stored resource that passes all
\* per-webhook checks, also when a name occurs more than once in the stored list.
C24_MatchedCoversDesired ==
    (ReadOfKnownGen /\ matchedCfg)
        => \A j \in 1..Len(k8sResInfo.WebhooksInfo) : DesiredHasMatch(j)

\* The read phase has reported matched for a resource that holds the first desired
\* webhook twice and the second one not at all.
C24_Witness ==
    /\ ReadOfKnownGen
    /\ matchedCfg
    /\ Len(k8sResInfo.WebhooksInfo) = 2
    /\ k8sResInfo.WebhooksInfo[1].Name # k8sResInfo.WebhooksInfo[2].Name
    /\ Len(gate[1].Webhooks) = 2
    /\ gate[1].Webhooks[1].Name = gate[1].Webhooks[2].Name
    /\ ~DesiredHasMatch(2)


---------------------------------------------------------------------------
(* Properties of two replicas reconciling at once (SpecTwo).               *)

ReplicaReadStep(r) == replicas[r].pc = "read" /\ replicas'[r] # replicas[r]
AllReturned == \A r \in Replicas : replicas[r].pc = "done"

\* C25: two replicas with the same bundles enabling the same configuration on one store:
\* both calls return, and with no error; a replica whose create or update lost the race
\* reads the resource again and finds it matched; and when both have returned the
\* resource of that name exists and the read phase finds it matched.
C25_ReplicasConverge ==
    /\ [](\A r \in Replicas :
             replicas[r].pc = "done" => (replicas[r].ret # <<>> /\ replicas[r].ret[1].err = ""))
    /\ [][\A r \in Replicas :
             (ReplicaReadStep(r) /\ replicas[r].err \in {ErrExists, ErrConflict})
                => (/\ replicas'[r].k8sConfigured
                    /\ replicas'[r].matchedCfg
                    /\ replicas'[r].err = ""
                    /\ replicas'[r].ret = Returned(TRUE, ""))]_vars
    /\ [](AllReturned =>
             (/\ gate # <<>>
              /\ gate[1].Name = k8sResInfo.Name
              /\ ReadNow.found
              /\ ReadNow.matched))
    /\ <>[]AllReturned

\* Both replicas have returned; the second lost the race of the create, read again and
\* skipped; the first wrote the resource.
C25_Witness ==
    /\ replicas # <<>>
    /\ AllReturned
    /\ replicas[1].ret = Returned(FALSE, "")
    /\ replicas[1].op = K8sResOpCreate
    /\ replicas[2].ret = Returned(TRUE, "")
    /\ replicas[2].retry = 1
    /\ replicas[2].op = ""
    /\ gate # <<>>


\* C26: the initiator returns success only if an echo write with the value of its tag
\* was committed after its own tag write was; the tag write leaves the tag in the store
\* and the echo label absent; and an echo write built on an object read before a later
\* change of the service, the tag write included, is not committed.
C26_SuccessNeedsEchoAfterTag ==
    [][/\ ((tRet' # <<>> /\ tRet'[1].outcome = TestSucceeded) => echoSince')
       /\ ((TestWriteStep /\ tPc' = "select") =>
             /\ LabelOf(svcStore'[ProbeSvc][1].Labels, TagKeyOf(ProbeSvc)) = tTag
             /\ EchoKeyOf(ProbeSvc) \notin DOMAIN svcStore'[ProbeSvc][1].Labels)
       /\ ((EchoWriteStep /\ rObj[1].ResourceVersion # svcStore[ProbeSvc][1].ResourceVersion)
             => (svcStore' = svcStore /\ ~rEchoed'))]_vars

\* The initiator has returned success: the responder's first echo write, built on the
\* service as it was before the tag write, was refused, and a later one was committed.
C26_Witness ==
    /\ tPc = "done"
    /\ tRet = TestReturned(TestSucceeded, "")
    /\ echoSince
    /\ rConflicted
    /\ rEchoed
    /\ LabelOf(svcStore[ProbeSvc][1].Labels, EchoKeyOf(ProbeSvc)) = tTag


---------------------------------------------------------------------------
(* Two probes on one service: TestAdmWebhookConnection on this replica, as  *)
(* above, and the same function on a second replica, followed up to its tag *)
(* write.  Both registries hold the service's label keys; the clocks of the *)
(* two replicas agree, and every tick of a ticker is a second on the clock. *)
(* No shutdown signal is delivered.                                         *)

\* The second replica's run before its GetResource.
PeerStart == [pc |-> "idle", tag |-> "", obj |-> <<>>, wrote |-> FALSE, over |-> FALSE]

\* The second replica: GetResource of the Service, the tag, the echo key removed.  It
\* starts no later than the last second this replica may start in.
PeerTestGet ==
    /\ replicas[2].pc = "idle"
    /\ now <= ProbeEpoch + MaxIdleTicks
    /\ \E storeErr \in {"", ErrStore} :
          LET get == GetService(svcStore, ProbeSvc, storeErr)
              keys == KeysOf(svcLabelKeys, ProbeSvc)
          IN  IF get.err # "" \/ keys = <<>> \/ get.obj[1].ResourceVersion = <<>>
              THEN replicas' = [replicas EXCEPT ![2].pc = "done"]
              ELSE replicas' = [replicas EXCEPT
                     ![2].pc = "write",
                     ![2].tag = TagOf(now),
                     ![2].obj = <<[get.obj[1] EXCEPT
                                     !.Labels = DeleteLabel(SetLabel(@, keys[1].TagKey,
                                                                     TagOf(now)),
                                                            keys[1].EchoKey)]>>]
    /\ UNCHANGED <<regVars, storeVars, k8sVersion, k8sResInfo, ctrlState, pc, retry,
                   k8sConfigured, matchedCfg, verRead, op, err, getErr, issued, ret, calls,
                   callsLeft, nsVars, probeVars, regCallVars>>

\* The second replica: the UpdateResource of its tag.  "over" notes a write committed
\* after this replica's tag write; its poll loop, which only reads, is not followed.
PeerTestWrite ==
    /\ replicas[2].pc = "write"
    /\ \E storeErr \in {"", ErrStore} :
          LET w == UpdateService(svcStore, ProbeSvc, replicas[2].obj[1], storeErr, rvNext)
          IN  /\ svcStore' = w.store
              /\ rvNext' = IF w.err = "" THEN rvNext + 1 ELSE rvNext
              /\ replicas' = [replicas EXCEPT
                     ![2].pc = "done",
                     ![2].obj = <<>>,
                     ![2].wrote = (w.err = ""),
                     ![2].over = (w.err = "" /\ TestInLoop)]
    /\ UNCHANGED <<regVars, gate, extLeft, k8sVersion, k8sResInfo, ctrlState, pc, retry,
                   k8sConfigured, matchedCfg, verRead, op, err, getErr, issued, ret, calls,
                   callsLeft, nsVars, probeVars, regCallVars>>

\* A second passes: the tickers of the running loops fire and the clock moves on; it is
\* followed up to the first second in which the second replica no longer starts.
TickSecond ==
    /\ ~(tPc = "select" /\ (tTick \/ tSig))
    /\ ~(rPc = "select" /\ (rTick \/ rSig))
    /\ \/ TestInLoop /\ ~tTick
       \/ EchoInLoop /\ ~rTick
       \/ tPc = "idle" /\ tRunsLeft > 0 /\ now < ProbeEpoch + MaxIdleTicks
    /\ now' = IF now <= ProbeEpoch + MaxIdleTicks THEN now + 1 ELSE now
    /\ tTick' = (tTick \/ TestInLoop)
    /\ rTick' = (rTick \/ EchoInLoop)
    /\ UNCHANGED <<tPc, tTag, tObj, tPolls, tSig, tSigged, tPollsAfterSig, tGetErr, tRet,
                   tRunsLeft>>
    /\ UNCHANGED <<rPc, rTagExpected, rPolls, rEchoed, rConflicted, rSig, rSigged,
                   rPollsAfterSig, rObj, rRunsLeft>>
    /\ UNCHANGED <<regVars, storeVars, k8sVersion, cfgVars, nsVars, regCallVars>>
    /\ UNCHANGED echoSince

InitTags ==
    /\ admCaBundle = [svcName \in Services |-> "ca1"]
    /\ svcLabelKeys = [svcName \in Services |->
                         <<[TagKey |-> TagKeyOf(svcName), EchoKey |-> EchoKeyOf(svcName)]>>]
    /\ \E labels \in ProbeLabelMaps :
          svcStore = [svcName \in Services |->
                        <<[ResourceVersion |-> <<0>>, Labels |-> labels,
                           Type |-> ServiceTypeClusterIP, NodePort |-> <<>>]>>]
    /\ CfgAtRest
    /\ rvNext = 1
    /\ extLeft = 0
    /\ NsAtRest
    /\ now = ProbeEpoch
    /\ tPc = "idle"
    /\ tTag = ""
    /\ tObj = <<>>
    /\ tPolls = 0
    /\ tTick = FALSE
    /\ tSig = FALSE
    /\ tSigged = FALSE
    /\ tPollsAfterSig = 0
    /\ tGetErr = <<>>
    /\ tRet = <<>>
    /\ tRunsLeft = MaxTests
    /\ rPc = "idle"
    /\ rTagExpected = ""
    /\ rPolls = 0
    /\ rEchoed = FALSE
    /\ rConflicted = FALSE
    /\ rTick = FALSE
    /\ rSig = FALSE
    /\ rSigged = FALSE
    /\ rPollsAfterSig = 0
    /\ rObj = <<>>
    /\ rRunsLeft = MaxEchoes
    /\ echoSince = FALSE
    /\ RegAtRest
    /\ replicas = [r \in Replicas \ {1} |-> PeerStart]

NextTags ==
    \/ TestGet
    \/ TestWrite
    \/ TestSelect
    \/ TestPoll
    \/ TestReturn
    \/ PeerTestGet
    \/ PeerTestWrite
    \/ EchoStart
    \/ EchoSelect
    \/ EchoGet
    \/ EchoWrite
    \/ EchoReturn
    \/ TickSecond

SpecTags == InitTags /\ [][NextTags]_vars

\* This replica's run has written its tag.
TagWritten ==
    \/ TestInLoop
    \/ /\ tPc = "done"
       /\ tRet[1].outcome \in {TestSucceeded, TestFailed, TestAborted}

\* C27: two runs of TestAdmWebhookConnection on one service that each wrote a tag wrote
\* different tags, and a run does not report success on an echo of the tag the other
\* run wrote over its own.
C27_TagsUnique ==
    /\ ((TagWritten /\ replicas[2].wrote) => replicas[2].tag # tTag)
    /\ ((tPc = "done" /\ tRet[1].outcome = TestSucceeded) => ~replicas[2].over)

\* Both runs wrote their tags within one second: the second replica's tag replaced the
\* equal tag of this replica, the responder echoed it, and this replica reports success.
C27_Witness ==
    /\ tPc = "done"
    /\ tRet = TestReturned(TestSucceeded, "")
    /\ replicas[2].over
    /\ replicas[2].tag = tTag
    /\ rEchoed

=============================================================================
